---------------------------- MODULE Spec2Model ----------------------------
(***************************************************************************)
(* Surely web client: token storage (js/security.js), the HTTP client      *)
(* (api service), the authentication service and the subscription page's   *)
(* payment flow (js/subscription.js), as state machines.                    *)
(*                                                                         *)
(* Time is in milliseconds, as Date.now() and setTimeout use it.           *)
(* A missing storage item (getItem() === null) is Null for strings and     *)
(* NoExpiry for the expiry entry.                                          *)
(***************************************************************************)
EXTENDS Integers, Sequences, FiniteSets, TLC

VARIABLES
  now,             \* Date.now()
  sessionStorage,  \* window.sessionStorage (one browser tab)
  localStorage,    \* window.localStorage
  op,              \* the TokenStore call made last: its name, arguments, locals
  ret,             \* what that call returned
  location,        \* the document the tab shows: "subscription", "login", ...
  href,            \* a value assigned to window.location.href, not yet loaded
  urlParams,       \* the query string of the subscription page's URL
  loads,           \* page loads so far
  currentUser,     \* authService.currentUser
  currentCountry,  \* subscription.js module variables
  pricingData,
  statusView,      \* what #payment-status-container shows ("hidden": not shown)
  pricingHidden,   \* #pricing-section carries class hidden
  pricingFailed,   \* initializeSubscriptionPage() caught an error and alerted
  loadPc,          \* where the DOMContentLoaded handler stands
  ctorPc,          \* where the AuthService constructor's loadCurrentUser() stands
  verify,          \* the verifyPaymentStatus() chain of this page
  inits,           \* the initiatePayment() calls of this page
  http,            \* per caller, its apiService request
  statusCount,     \* fetch attempts on /payments/status made by this page
  lastStatusAt,    \* Date.now() at the last of them
  verifyStartAt,   \* Date.now() when handlePaymentRedirect() started verifying
  nPending,        \* 'pending' answers this page received
  sawError,        \* a status attempt of this page ended in an error
  pricingFetches,  \* country codes of this page's apiService.get(pricing) calls
  lastError,       \* the verification that ended in an error last, in any load
  auth,            \* the authService call made last: where it stands, how it ended
  events,          \* the authStateChanged events dispatched on window
  req,             \* the makeRequest() chain made last: its attempts, its end
  router           \* the page's RouterService: its guard and its refresh timer

tokVars == <<now, sessionStorage, localStorage, op, ret>>

pageVars == <<location, href, urlParams, loads, currentUser, currentCountry,
              pricingData, statusView, pricingHidden,
              pricingFailed, loadPc, ctorPc, verify, inits, http, statusCount,
              lastStatusAt, verifyStartAt, nPending, sawError, pricingFetches>>

vars == <<now, sessionStorage, localStorage, op, ret, location, href,
          urlParams, loads, currentUser, currentCountry, pricingData,
          statusView, pricingHidden, pricingFailed, loadPc,
          ctorPc, verify, inits, http, statusCount, lastStatusAt,
          verifyStartAt, nPending, sawError, pricingFetches, lastError,
          auth, events, req, router>>

authVars == <<auth, events>>

netVars == <<req, router>>

----------------------------------------------------------------------------
(* Values *)

Null == "null"
NoExpiry == -1

Tokens == {"T1", "T2"}

\* !x of a string or null
Falsy(x) == x = Null \/ x = ""

(* Bounds of the model *)
MaxTokTime == 3000
MaxTime == 16000
MaxLoads == 2
MaxPolls == 3
MaxPayTime == 8000
MaxPollTime == 24000

----------------------------------------------------------------------------
(* js/security.js: SecurityManager, over the two storages *)

EmptySession ==
  [token |-> Null, expiry |-> NoExpiry,
   pending_payment_reference |-> Null, pending_payment_plan |-> Null,
   redirectAfterLogin |-> [path |-> Null, search |-> Null]]

EmptyLocal == [token |-> Null, expiry |-> NoExpiry]

Stores(ss, ls) == [session |-> ss, local |-> ls]

\* storeToken(token, expiresIn, rememberMe): one tier is written, the other
\* is left as it is.
StoreToken(st, token, expiresIn, rememberMe, t) ==
  LET expiryTime == t + (expiresIn * 1000)
  IN  IF rememberMe
        THEN Stores(st.session,
                    [st.local EXCEPT !.token = token, !.expiry = expiryTime])
        ELSE Stores([st.session EXCEPT !.token = token, !.expiry = expiryTime],
                    st.local)

\* clearToken(): both keys of both tiers.
ClearToken(st) ==
  Stores([st.session EXCEPT !.token = Null, !.expiry = NoExpiry],
         [st.local EXCEPT !.token = Null, !.expiry = NoExpiry])

\* The local tier is looked at first, the session tier when it has no token.
FoundEntryLocalFirst(st) ==
  IF st.local.token # Null
    THEN [token |-> st.local.token, expiry |-> st.local.expiry]
    ELSE [token |-> st.session.token, expiry |-> st.session.expiry]

\* The (token, expiry) pair getToken() looks at: the session tier's, or the
\* local tier's when the session tier has no token.
FoundEntry(st) ==
  IF st.session.token # Null
    THEN [token |-> st.session.token, expiry |-> st.session.expiry]
    ELSE [token |-> st.local.token, expiry |-> st.local.expiry]

\* Date.now() <= expiryTime: the token still counts at its expiry instant.
UnexpiredInclusive(t, expiryTime) == t <= expiryTime

\* Date.now() < expiryTime
Unexpired(t, expiryTime) == t < expiryTime

\* The token is returned without looking at its expiry.
GetTokenUnchecked(st, t) ==
  LET e == FoundEntry(st)
  IN  IF e.token # Null /\ e.expiry # NoExpiry
        THEN [ret |-> e.token, st |-> st]
        ELSE [ret |-> Null, st |-> st]

\* getToken(): the token returned and the storages it leaves.
GetToken(st, t) ==
  LET e == FoundEntry(st)
  IN  IF e.token # Null /\ e.expiry # NoExpiry
        THEN IF Unexpired(t, e.expiry)
               THEN [ret |-> e.token, st |-> st]
               ELSE [ret |-> Null, st |-> ClearToken(st)]
        ELSE [ret |-> Null, st |-> st]

\* CONFIG.TOKEN_REFRESH_THRESHOLD, in milliseconds
TOKEN_REFRESH_THRESHOLD == 300000

\* The expiry needsRefresh() looks at: the session tier's item, or the local
\* tier's when the session tier has none.
RefreshExpiry(st) ==
  IF st.session.expiry # NoExpiry THEN st.session.expiry ELSE st.local.expiry

\* timeRemaining <= CONFIG.TOKEN_REFRESH_THRESHOLD
NeedsRefreshInclusive(st, t) ==
  /\ RefreshExpiry(st) # NoExpiry
  /\ RefreshExpiry(st) - t <= TOKEN_REFRESH_THRESHOLD

\* needsRefresh(): no storage is written, an expiry that has passed counts
\* with its negative time remaining.
NeedsRefresh(st, t) ==
  /\ RefreshExpiry(st) # NoExpiry
  /\ RefreshExpiry(st) - t < TOKEN_REFRESH_THRESHOLD

\* isAuthenticated(): getToken() !== null, with getToken's side effect.
IsAuthenticated(st, t) ==
  LET g == GetToken(st, t) IN [ret |-> g.ret # Null, st |-> g.st]

\* The two storages as they are, and as an operation leaves them.
Cur == Stores(sessionStorage, localStorage)

SetStores(st) ==
  /\ sessionStorage' = st.session
  /\ localStorage' = st.local

----------------------------------------------------------------------------
(* The api service as its callers see it: get() and post() build the       *)
(* headers, hand the request to makeRequest() and settle when makeRequest,  *)
(* after its retries, returns {success: true, data} or throws.              *)

Procs ==
  {"load", "ctor", "verify", "init1", "init2", "tick1", "tick2", "logout"}

NoBody == [plan |-> Null, country_code |-> Null, enable_auto_renew |-> FALSE]

NoReq == [ep |-> "none", ref |-> Null, bearer |-> Null, body |-> NoBody]

\* buildHeaders(includeAuth): the Authorization header's token, read with
\* getToken() and its side effect.
BuildHeaders(st, t, includeAuth) ==
  IF includeAuth
    THEN [bearer |-> GetToken(st, t).ret, st |-> GetToken(st, t).st]
    ELSE [bearer |-> Null, st |-> st]

\* get()/post(): the request, in flight with the headers built for it.
NewReq(ep, ref, st, t, includeAuth) ==
  [ep |-> ep, ref |-> ref, bearer |-> BuildHeaders(st, t, includeAuth).bearer,
   body |-> NoBody]

\* The errors makeRequest() throws to its caller.
\*   e401: status 401         e4xx: 403, 404, 400, 422 or another non-ok status
\*   e5xx: status >= 500      neterr: fetch or the body parser rejected
\*   timeout: the 30 s abort
\*   eauth: a 4xx whose server message names '401', '403' or 'Unauthorized'
Failures == {"e401", "e4xx", "eauth", "e5xx", "neterr", "timeout"}

\* The 401 branch on the subscription page (a path containing
\* 'subscription'): clearToken() and location.href = './login.html'.
After401(st, kind) == IF kind = "e401" THEN ClearToken(st) ELSE st

HrefAfter(kind, h) == IF kind = "e401" THEN "login" ELSE h

InFlight(p) == http[p].ep # "none"

----------------------------------------------------------------------------
(* js/security.js: validateEmail and validatePassword. A string is the     *)
(* sequence of its characters.                                              *)

UpperLetters == {"A", "B", "C", "D", "E", "F", "G"}
LowerLetters == {"a", "b", "c", "d", "e", "f", "g", "h"}
DigitChars == {"1"}
Whitespace == {" "}

\* /^[^\s@]+@[^\s@]+\.[^\s@]+$/: one '@', not first, no whitespace, and
\* after the '@' a '.' that is neither next to the '@' nor last.
ValidateEmail(s) ==
  \E i \in 2..Len(s) :
    /\ s[i] = "@"
    /\ \A k \in 1..Len(s) : s[k] \notin Whitespace /\ (s[k] = "@" => k = i)
    /\ \E j \in (i + 2)..(Len(s) - 1) : s[j] = "."

\* password.length >= 9
ValidatePasswordLonger(password) ==
  LET minLength == Len(password) >= 9
      hasUpper == \E i \in 1..Len(password) : password[i] \in UpperLetters
      hasLower == \E i \in 1..Len(password) : password[i] \in LowerLetters
      hasNumber == \E i \in 1..Len(password) : password[i] \in DigitChars
  IN  [valid |-> minLength /\ hasUpper /\ hasLower /\ hasNumber,
       minLength |-> minLength, hasUpper |-> hasUpper,
       hasLower |-> hasLower, hasNumber |-> hasNumber]

\* validatePassword(password): the report of the four checks.
ValidatePassword(password) ==
  LET minLength == Len(password) >= 8
      hasUpper == \E i \in 1..Len(password) : password[i] \in UpperLetters
      hasLower == \E i \in 1..Len(password) : password[i] \in LowerLetters
      hasNumber == \E i \in 1..Len(password) : password[i] \in DigitChars
  IN  [valid |-> minLength /\ hasUpper /\ hasLower /\ hasNumber,
       minLength |-> minLength, hasUpper |-> hasUpper,
       hasLower |-> hasLower, hasNumber |-> hasNumber]

\* validatePassword() has not been called.
NoValidation ==
  [valid |-> FALSE, minLength |-> FALSE, hasUpper |-> FALSE,
   hasLower |-> FALSE, hasNumber |-> FALSE, called |-> FALSE]

Report(password) ==
  [valid |-> ValidatePassword(password).valid,
   minLength |-> ValidatePassword(password).minLength,
   hasUpper |-> ValidatePassword(password).hasUpper,
   hasLower |-> ValidatePassword(password).hasLower,
   hasNumber |-> ValidatePassword(password).hasNumber,
   called |-> TRUE]

----------------------------------------------------------------------------
(* The router service's refresh timer: the intervals set on the page and  *)
(* the one this.refreshInterval names (0: none)                            *)

\* A page without RouterService, or before its constructor ran.
NoRouter ==
  [up |-> FALSE, checks |-> 0, decision |-> Null, authed |-> FALSE,
   replace |-> FALSE, refreshInterval |-> 0, timers |-> {}, intervals |-> 0,
   tick |-> "idle"]

refreshCheckDelay == 60000

\* stopTokenRefreshCheck(): the interval this.refreshInterval names is
\* cleared.
StopTokenRefreshCheck(r) ==
  IF r.refreshInterval # 0
    THEN [r EXCEPT !.timers = {x \in @ : x.id # r.refreshInterval},
                   !.refreshInterval = 0]
    ELSE r

\* setInterval(callback, 60000) assigned to this.refreshInterval.
SetInterval(r, t) ==
  [r EXCEPT !.timers = @ \cup {[id |-> r.intervals + 1,
                                due |-> t + refreshCheckDelay]},
            !.refreshInterval = r.intervals + 1,
            !.intervals = @ + 1]

\* The interval is set without the one before being cleared.
StartWithoutStop(r, t) == SetInterval(r, t)

\* startTokenRefreshCheck()
StartTokenRefreshCheck(r, t) == SetInterval(StopTokenRefreshCheck(r), t)

\* The listener init() adds for authStateChanged, on a page whose router is
\* up.
OnAuthStateChanged(r, authenticated, t) ==
  IF ~r.up THEN r
  ELSE IF authenticated THEN StartTokenRefreshCheck(r, t)
  ELSE StopTokenRefreshCheck(r)

----------------------------------------------------------------------------
(* services/auth.service.js: login, register, logout, refreshToken *)

\* authData.expiresIn is missing from the response.
NoExpiresIn == -1

\* response.data of the auth endpoints: an object with some of token,
\* expiresIn and user, or the JSON value null.
AuthData(shape, token, expiresIn, user) ==
  [shape |-> shape, token |-> token, expiresIn |-> expiresIn, user |-> user]

NoData == AuthData("none", Null, NoExpiresIn, Null)

NullData == AuthData("null", Null, NoExpiresIn, Null)

\* authService has not been called: nothing awaited, nothing returned.
IdleAuth ==
  [pc |-> "idle", call |-> "none", n |-> 0, email |-> <<>>,
   password |-> <<>>, rememberMe |-> FALSE, bearer |-> Null,
   validation |-> NoValidation, data |-> NoData, result |-> Null,
   error |-> Null]

MaxCalls == 3

\* The pages the service runs on here: the login page (public) and the
\* profile page (protected).
AuthPages == {"login", "profile"}

\* makeRequest()'s isProtectedRoute: the path names one of these pages.
IsProtectedRoute(loc) == loc \in {"profile", "subscription", "dashboard"}

\* The errors makeRequest() throws to authService.
AuthFailures == {"e401", "e4xx", "e5xx", "neterr", "timeout"}

\* The 401 branch: on a protected page clearToken() and
\* location.href = './login.html'.
StoresAfterFailure(loc, kind, st) ==
  IF kind = "e401" /\ IsProtectedRoute(loc) THEN ClearToken(st) ELSE st

HrefAfterFailure(loc, kind, h) ==
  IF kind = "e401" /\ IsProtectedRoute(loc) THEN "login" ELSE h

\* authData.expiresIn || 3600: a missing expiresIn and 0 are both falsy.
ExpiresInOr(expiresIn) ==
  IF expiresIn = NoExpiresIn \/ expiresIn = 0 THEN 3600 ELSE expiresIn

\* authData.user || authData
UserOf(data) == IF Falsy(data.user) THEN "authData" ELSE data.user

\* The detail of an authStateChanged event.
Detail(user, authenticated) == [user |-> user, authenticated |-> authenticated]

\* The token goes to the tier the flag does not name.
HandleAuthSuccessOtherTier(data, rememberMe) ==
  /\ SetStores(StoreToken(Cur, data.token, ExpiresInOr(data.expiresIn),
                          ~rememberMe, now))
  /\ currentUser' = UserOf(data)
  /\ events' = Append(events, Detail(UserOf(data), TRUE))
  /\ router' = OnAuthStateChanged(router, TRUE, now)

\* handleAuthSuccess(authData, rememberMe)
HandleAuthSuccess(data, rememberMe) ==
  /\ SetStores(StoreToken(Cur, data.token, ExpiresInOr(data.expiresIn),
                          rememberMe, now))
  /\ currentUser' = UserOf(data)
  /\ events' = Append(events, Detail(UserOf(data), TRUE))
  /\ router' = OnAuthStateChanged(router, TRUE, now)

\* A call ends: its arguments and its request are gone.
AuthEnded(data, result) ==
  [auth EXCEPT !.pc = "idle", !.email = <<>>, !.password = <<>>,
               !.rememberMe = FALSE, !.bearer = Null,
               !.validation = NoValidation, !.data = data,
               !.result = result]

\* A call starts.
AuthCalled(call, email, password, rememberMe) ==
  [IdleAuth EXCEPT !.call = call, !.n = auth.n + 1, !.email = email,
                   !.password = password, !.rememberMe = rememberMe]

CanCall ==
  /\ location \in AuthPages
  /\ href = Null
  /\ auth.pc = "idle"
  /\ auth.n < MaxCalls

\* login()'s checks before its request.
LoginValid(email, password) ==
  /\ email # <<>>
  /\ password # <<>>
  /\ ValidateEmail(email)

\* login(email, password, rememberMe) up to its request, which carries no
\* Authorization header, or to the error its validation throws.
Login(email, password, rememberMe) ==
  /\ CanCall
  /\ auth' = IF LoginValid(email, password)
               THEN [AuthCalled("login", email, password, rememberMe)
                       EXCEPT !.pc = "await"]
               ELSE [AuthCalled("login", email, password, rememberMe)
                       EXCEPT !.result = "validation"]
  /\ UNCHANGED <<now, sessionStorage, localStorage, op, ret, location, href,
                 urlParams, loads, currentUser, currentCountry, pricingData,
                 statusView, pricingHidden, pricingFailed, loadPc, ctorPc,
                 verify, inits, http, statusCount, lastStatusAt,
                 verifyStartAt, nPending, sawError, pricingFetches, lastError,
                 events, req, router>>

\* Every 2xx answer counts as a login.
LoginSucceedsAlways(data) == data.shape # "null"

\* response.success && response.data.token
LoginSucceeds(data) == data.shape = "object" /\ ~Falsy(data.token)

\* The login request is answered 2xx: with a token handleAuthSuccess() and
\* the response is returned; without one, or with data null (a TypeError),
\* an error is thrown.
LoginReturns(data) ==
  /\ auth.pc = "await"
  /\ auth.call = "login"
  /\ IF LoginSucceeds(data)
       THEN /\ HandleAuthSuccess(data, auth.rememberMe)
            /\ auth' = AuthEnded(data, "returned")
       ELSE /\ auth' = AuthEnded(data, "error")
            /\ UNCHANGED <<sessionStorage, localStorage, currentUser, events,
                           router>>
  /\ UNCHANGED <<now, op, ret, location, href, urlParams, loads,
                 currentCountry, pricingData, statusView, pricingHidden,
                 pricingFailed, loadPc, ctorPc, verify, inits, http,
                 statusCount, lastStatusAt, verifyStartAt, nPending, sawError,
                 pricingFetches, lastError, req>>

\* makeRequest() throws and login() rethrows.
LoginFails(kind) ==
  /\ auth.pc = "await"
  /\ auth.call = "login"
  /\ SetStores(StoresAfterFailure(location, kind, Cur))
  /\ href' = HrefAfterFailure(location, kind, href)
  /\ auth' = AuthEnded(NoData, "error")
  /\ UNCHANGED <<now, op, ret, location, urlParams, loads, currentUser,
                 currentCountry, pricingData, statusView, pricingHidden,
                 pricingFailed, loadPc, ctorPc, verify, inits, http,
                 statusCount, lastStatusAt, verifyStartAt, nPending, sawError,
                 pricingFetches, lastError, events, req, router>>

\* The password's strength is not looked at.
RegisterValidNoStrength(email, password) == LoginValid(email, password)

\* register()'s checks before its request.
RegisterValid(email, password) ==
  /\ LoginValid(email, password)
  /\ ValidatePassword(password).valid

\* register(userData) up to its request or to the error its validation
\* throws; validatePassword() is called once the email has passed.
Register(email, password, rememberMe) ==
  /\ CanCall
  /\ auth' = [AuthCalled("register", email, password, rememberMe) EXCEPT
                !.pc = IF RegisterValid(email, password)
                         THEN "await" ELSE "idle",
                !.result = IF RegisterValid(email, password)
                             THEN Null ELSE "validation",
                !.validation = IF LoginValid(email, password)
                                 THEN Report(password) ELSE NoValidation]
  /\ UNCHANGED <<now, sessionStorage, localStorage, op, ret, location, href,
                 urlParams, loads, currentUser, currentCountry, pricingData,
                 statusView, pricingHidden, pricingFailed, loadPc, ctorPc,
                 verify, inits, http, statusCount, lastStatusAt,
                 verifyStartAt, nPending, sawError, pricingFetches, lastError,
                 events, req, router>>

\* The registration request is answered 2xx: handleAuthSuccess() when the
\* response carries a token; data null throws a TypeError.
RegisterReturns(data) ==
  /\ auth.pc = "await"
  /\ auth.call = "register"
  /\ IF LoginSucceeds(data)
       THEN /\ HandleAuthSuccess(data, auth.rememberMe)
            /\ auth' = AuthEnded(data, "returned")
       ELSE /\ auth' = AuthEnded(data, IF data.shape = "null"
                                        THEN "error" ELSE "returned")
            /\ UNCHANGED <<sessionStorage, localStorage, currentUser, events,
                           router>>
  /\ UNCHANGED <<now, op, ret, location, href, urlParams, loads,
                 currentCountry, pricingData, statusView, pricingHidden,
                 pricingFailed, loadPc, ctorPc, verify, inits, http,
                 statusCount, lastStatusAt, verifyStartAt, nPending, sawError,
                 pricingFetches, lastError, req>>

RegisterFails(kind) ==
  /\ auth.pc = "await"
  /\ auth.call = "register"
  /\ SetStores(StoresAfterFailure(location, kind, Cur))
  /\ href' = HrefAfterFailure(location, kind, href)
  /\ auth' = AuthEnded(NoData, "error")
  /\ UNCHANGED <<now, op, ret, location, urlParams, loads, currentUser,
                 currentCountry, pricingData, statusView, pricingHidden,
                 pricingFailed, loadPc, ctorPc, verify, inits, http,
                 statusCount, lastStatusAt, verifyStartAt, nPending, sawError,
                 pricingFetches, lastError, events, req, router>>

\* A failed logout request leaves the storages as makeRequest() left them.
LogoutStoresOnSuccess(loc, kind, st) ==
  IF kind = "ok" THEN ClearToken(st) ELSE StoresAfterFailure(loc, kind, st)

\* The storages after logout(): whatever the request did, clearToken().
LogoutStores(loc, kind, st) == ClearToken(StoresAfterFailure(loc, kind, st))

\* logout() from 'Clear local state' on.
LogoutFinish(st) ==
  /\ SetStores(st)
  /\ currentUser' = Null
  /\ events' = Append(events, Detail(Null, FALSE))
  /\ router' = OnAuthStateChanged([router EXCEPT !.tick = "idle"], FALSE, now)
  /\ href' = "login"

\* logout(): the logout request when isAuthenticated(), with the token as
\* Authorization header; otherwise the whole of it at once.
Logout ==
  /\ CanCall
  /\ IF IsAuthenticated(Cur, now).ret
       THEN /\ auth' = [AuthCalled("logout", <<>>, <<>>, FALSE) EXCEPT
                          !.pc = "await",
                          !.bearer = GetToken(Cur, now).ret]
            /\ UNCHANGED <<sessionStorage, localStorage, currentUser, events,
                           href, router>>
       ELSE /\ auth' = [AuthCalled("logout", <<>>, <<>>, FALSE) EXCEPT
                          !.result = "done"]
            /\ LogoutFinish(ClearToken(IsAuthenticated(Cur, now).st))
  /\ UNCHANGED <<now, op, ret, location, urlParams, loads, currentCountry,
                 pricingData, statusView, pricingHidden, pricingFailed,
                 loadPc, ctorPc, verify, inits, http, statusCount,
                 lastStatusAt, verifyStartAt, nPending, sawError,
                 pricingFetches, lastError, req>>

\* The logout request is answered ("ok") or fails: logout() goes on either
\* way.
LogoutReturns(kind) ==
  /\ auth.pc = "await"
  /\ auth.call = "logout"
  /\ LogoutFinish(LogoutStores(location, kind, Cur))
  /\ auth' = AuthEnded(NoData, "done")
  /\ UNCHANGED <<now, op, ret, location, urlParams, loads, currentCountry,
                 pricingData, statusView, pricingHidden, pricingFailed,
                 loadPc, ctorPc, verify, inits, http, statusCount,
                 lastStatusAt, verifyStartAt, nPending, sawError,
                 pricingFetches, lastError, req>>

\* refreshToken() up to its request, whose headers getToken() builds.
RefreshToken ==
  /\ CanCall
  /\ SetStores(GetToken(Cur, now).st)
  /\ auth' = [AuthCalled("refresh", <<>>, <<>>, FALSE) EXCEPT
                !.pc = "await", !.bearer = GetToken(Cur, now).ret]
  /\ UNCHANGED <<now, op, ret, location, href, urlParams, loads, currentUser,
                 currentCountry, pricingData, statusView, pricingHidden,
                 pricingFailed, loadPc, ctorPc, verify, inits, http,
                 statusCount, lastStatusAt, verifyStartAt, nPending, sawError,
                 pricingFetches, lastError, events, req, router>>

\* The TypeError of data null escapes refreshToken().
RefreshResultUncaught(data) ==
  IF data.shape = "null" THEN "error"
  ELSE IF LoginSucceeds(data) THEN "true" ELSE "false"

\* What refreshToken() returns on a 2xx answer: data null throws inside the
\* try and is caught.
RefreshResult(data) == IF LoginSucceeds(data) THEN "true" ELSE "false"

\* localStorage.getItem(CONFIG.TOKEN_KEY) !== null
RememberMe(st) == st.local.token # Null

\* The refresh request is answered 2xx.
RefreshReturns(data) ==
  /\ auth.pc = "await"
  /\ auth.call = "refresh"
  /\ router.tick = "idle"
  /\ SetStores(IF LoginSucceeds(data)
                 THEN StoreToken(Cur, data.token, ExpiresInOr(data.expiresIn),
                                 RememberMe(Cur), now)
                 ELSE Cur)
  /\ auth' = AuthEnded(data, RefreshResult(data))
  /\ UNCHANGED <<now, op, ret, location, href, urlParams, loads, currentUser,
                 currentCountry, pricingData, statusView, pricingHidden,
                 pricingFailed, loadPc, ctorPc, verify, inits, http,
                 statusCount, lastStatusAt, verifyStartAt, nPending, sawError,
                 pricingFetches, lastError, events, req, router>>

\* makeRequest() throws; refreshToken() catches it.
RefreshFails(kind) ==
  /\ auth.pc = "await"
  /\ auth.call = "refresh"
  /\ router.tick = "idle"
  /\ SetStores(StoresAfterFailure(location, kind, Cur))
  /\ href' = HrefAfterFailure(location, kind, href)
  /\ auth' = AuthEnded(NoData, "false")
  /\ UNCHANGED <<now, op, ret, location, urlParams, loads, currentUser,
                 currentCountry, pricingData, statusView, pricingHidden,
                 pricingFailed, loadPc, ctorPc, verify, inits, http,
                 statusCount, lastStatusAt, verifyStartAt, nPending, sawError,
                 pricingFetches, lastError, events, req, router>>

\* loadCurrentUser() called on a page that is up, up to its request: the
\* profile request when isAuthenticated(), otherwise null is returned.
LoadCurrentUser ==
  /\ CanCall
  /\ SetStores(IsAuthenticated(Cur, now).st)
  /\ auth' = IF IsAuthenticated(Cur, now).ret
               THEN [AuthCalled("loadUser", <<>>, <<>>, FALSE) EXCEPT
                       !.pc = "await", !.bearer = GetToken(Cur, now).ret]
               ELSE [AuthCalled("loadUser", <<>>, <<>>, FALSE) EXCEPT
                       !.result = "absent"]
  /\ UNCHANGED <<now, op, ret, location, href, urlParams, loads, currentUser,
                 currentCountry, pricingData, statusView, pricingHidden,
                 pricingFailed, loadPc, ctorPc, verify, inits, http,
                 statusCount, lastStatusAt, verifyStartAt, nPending, sawError,
                 pricingFetches, lastError, events, req, router>>

\* The catch block does not call clearToken().
StoresAfterCaught(loc, kind, st) == StoresAfterFailure(loc, kind, st)

\* The storages after loadCurrentUser() caught an error of its request.
StoresAfterCatch(loc, kind, st) ==
  ClearToken(StoresAfterFailure(loc, kind, st))

\* The profile request is answered 2xx: currentUser is response.data, which
\* is returned.
LoadCurrentUserReturns(kind) ==
  /\ auth.pc = "await"
  /\ auth.call = "loadUser"
  /\ kind \in {"ok", "nodata"}
  /\ currentUser' = IF kind = "ok" THEN "U1" ELSE Null
  /\ auth' = AuthEnded(NoData, IF kind = "ok" THEN "user" ELSE "absent")
  /\ UNCHANGED <<now, sessionStorage, localStorage, op, ret, location, href,
                 urlParams, loads, currentCountry, pricingData, statusView,
                 pricingHidden, pricingFailed, loadPc, ctorPc, verify, inits,
                 http, statusCount, lastStatusAt, verifyStartAt, nPending,
                 sawError, pricingFetches, lastError, events, req, router>>

\* The profile request fails: the error is caught, clearToken(), null is
\* returned. currentUser is not assigned.
LoadCurrentUserFails(kind) ==
  /\ auth.pc = "await"
  /\ auth.call = "loadUser"
  /\ SetStores(StoresAfterCatch(location, kind, Cur))
  /\ href' = HrefAfterFailure(location, kind, href)
  /\ auth' = [AuthEnded(NoData, "absent") EXCEPT !.error = kind]
  /\ UNCHANGED <<now, op, ret, location, urlParams, loads, currentUser,
                 currentCountry, pricingData, statusView, pricingHidden,
                 pricingFailed, loadPc, ctorPc, verify, inits, http,
                 statusCount, lastStatusAt, verifyStartAt, nPending, sawError,
                 pricingFetches, lastError, events, req, router>>

----------------------------------------------------------------------------
(* The api service's makeRequest(url, options, retryCount = 0), attempt by *)
(* attempt: fetch() under the abort timer, the branch on the answer, the   *)
(* delay before the next attempt.                                           *)

MaxReqs == 1
MaxReqTime == 130000

API_TIMEOUT == 30000
retryAttempts == 3
retryDelay == 1000

\* What fetch() settles with: a response with its status, or a rejection
\* (status 0) that is a TypeError of the network or the AbortError of the
\* abort timer.
Answer(status, error) == [status |-> status, error |-> error]

NoJson == [t |-> "none"]

IdleReq ==
  [pc |-> "idle", n |-> 0, method |-> Null, enc |-> Null, data |-> NoJson,
   sent |-> NoJson, body |-> <<>>, retryCount |-> 0, attempts |-> 0, startedAt |-> 0,
   wakeAt |-> 0, answers |-> <<>>, outcome |-> Null, thrown |-> 0]

\* makeRequest(url, options, retryCount) up to its fetch().
Attempt(r, t) ==
  [r EXCEPT !.pc = "fetch", !.attempts = @ + 1, !.startedAt = t]

\* await this.delay(this.retryDelay * (retryCount + 1))
Delayed(r, t) ==
  [r EXCEPT !.pc = "delay", !.wakeAt = t + retryDelay * (r.retryCount + 1)]

\* The error leaves makeRequest(): the promise the caller awaits rejects.
Thrown(r, error) ==
  [r EXCEPT !.pc = "idle", !.outcome = error, !.thrown = @ + 1]

\* return {success: true, data, status}
Returned(r) == [r EXCEPT !.pc = "idle", !.outcome = "success"]

\* The catch block retries whatever error it is given.
CatchBlockNoCeiling(r, error, t) ==
  IF error # "e401" THEN Delayed(r, t) ELSE Thrown(r, error)

\* The catch block for an error that is not the AbortError: another attempt
\* while retryCount < retryAttempts, unless the message is the one of the
\* 401 branch ('Session expired').
CatchBlock(r, error, t) ==
  IF r.retryCount < retryAttempts /\ error # "e401"
    THEN Delayed(r, t)
    ELSE Thrown(r, error)

\* The catch block gives the abort of the timer to its retry branch.
AbortedRetried(r, t) == CatchBlock(r, "timeout", t)

\* The catch block for the AbortError: 'Request timeout' is thrown from
\* the catch block itself.
Aborted(r, t) == Thrown(r, "timeout")

\* The branch of status >= 500 retries once more than retryAttempts.
ServerErrorOnceMore(r, t) ==
  IF r.retryCount <= retryAttempts
    THEN Delayed(r, t)
    ELSE Thrown(r, "e5xx")

\* The branch of status >= 500: a delay and another attempt while
\* retryCount < retryAttempts, otherwise the error is thrown, to the catch
\* block.
ServerError(r, t) ==
  IF r.retryCount < retryAttempts
    THEN Delayed(r, t)
    ELSE CatchBlock(r, "e5xx", t)

\* The 401 branch clears the token on every page.
StoresAfterStatusAnywhere(loc, status, st) ==
  IF status = 401 THEN ClearToken(st) ELSE st

\* The 401 branch: clearToken() on a protected page.
StoresAfterStatus(loc, status, st) ==
  IF status = 401 /\ IsProtectedRoute(loc) THEN ClearToken(st) ELSE st

\* The 401 branch: location.href = './login.html' on a protected page.
HrefAfterStatus(loc, status, h) ==
  IF status = 401 /\ IsProtectedRoute(loc) THEN "login" ELSE h

\* The branches on response.status, in the order of the code.
Answered(r, status, t) ==
  IF status = 401 THEN CatchBlock(r, "e401", t)
  ELSE IF status \in {403, 404, 400, 422} THEN CatchBlock(r, "e4xx", t)
  ELSE IF status >= 500 THEN ServerError(r, t)
  ELSE IF ~(status >= 200 /\ status <= 299) THEN CatchBlock(r, "e4xx", t)
  ELSE Returned(r)

\* fetch() resolves before the abort timer fires; the branch on the status
\* runs up to the return, the throw or the delay.
Responds(status) ==
  /\ req.pc = "fetch"
  /\ now - req.startedAt < API_TIMEOUT
  /\ SetStores(StoresAfterStatus(location, status, Cur))
  /\ href' = HrefAfterStatus(location, status, href)
  /\ req' = Answered([req EXCEPT !.answers = Append(@, Answer(status, Null))],
                      status, now)
  /\ UNCHANGED <<now, op, ret, location, urlParams, loads, currentUser,
                 currentCountry, pricingData, statusView, pricingHidden,
                 pricingFailed, loadPc, ctorPc, verify, inits, http,
                 statusCount, lastStatusAt, verifyStartAt, nPending, sawError,
                 pricingFetches, lastError, auth, events, router>>

\* fetch() rejects with a TypeError (no connection, DNS, CORS).
FetchRejects ==
  /\ req.pc = "fetch"
  /\ now - req.startedAt < API_TIMEOUT
  /\ req' = CatchBlock([req EXCEPT !.answers = Append(@, Answer(0, "TypeError"))],
                   "neterr", now)
  /\ UNCHANGED <<now, sessionStorage, localStorage, op, ret, location, href,
                 urlParams, loads, currentUser, currentCountry, pricingData,
                 statusView, pricingHidden, pricingFailed, loadPc, ctorPc,
                 verify, inits, http, statusCount, lastStatusAt,
                 verifyStartAt, nPending, sawError, pricingFetches, lastError,
                 auth, events, router>>

\* The abort timer fires after API_TIMEOUT: fetch() rejects with the
\* AbortError.
TimesOut ==
  /\ req.pc = "fetch"
  /\ now - req.startedAt = API_TIMEOUT
  /\ req' = Aborted([req EXCEPT !.answers = Append(@, Answer(0, "AbortError"))],
                    now)
  /\ UNCHANGED <<now, sessionStorage, localStorage, op, ret, location, href,
                 urlParams, loads, currentUser, currentCountry, pricingData,
                 statusView, pricingHidden, pricingFailed, loadPc, ctorPc,
                 verify, inits, http, statusCount, lastStatusAt,
                 verifyStartAt, nPending, sawError, pricingFetches, lastError,
                 auth, events, router>>

\* The delay is over: return this.makeRequest(url, options, retryCount + 1),
\* whose promise the outer call's promise follows.
DelayEnds ==
  /\ req.pc = "delay"
  /\ now = req.wakeAt
  /\ req' = Attempt([req EXCEPT !.retryCount = @ + 1], now)
  /\ UNCHANGED <<now, sessionStorage, localStorage, op, ret, location, href,
                 urlParams, loads, currentUser, currentCountry, pricingData,
                 statusView, pricingHidden, pricingFailed, loadPc, ctorPc,
                 verify, inits, http, statusCount, lastStatusAt,
                 verifyStartAt, nPending, sawError, pricingFetches, lastError,
                 auth, events, router>>

\* makeRequest(url, {method, headers, body}) called by an entry point. data
\* is the entry point's argument, sent the value it serializes, body the
\* serialized text.
Sent(method, enc, data, sent, body) ==
  Attempt([IdleReq EXCEPT !.n = req.n + 1, !.method = method, !.enc = enc,
                          !.data = data, !.sent = sent, !.body = body], now)

\* get(endpoint, includeAuth): the headers, then makeRequest().
Get(includeAuth) ==
  /\ req.pc = "idle"
  /\ href = Null
  /\ SetStores(BuildHeaders(Cur, now, includeAuth).st)
  /\ req' = Sent("GET", Null, NoJson, NoJson, <<>>)
  /\ UNCHANGED <<now, op, ret, location, href, urlParams, loads, currentUser,
                 currentCountry, pricingData, statusView, pricingHidden,
                 pricingFailed, loadPc, ctorPc, verify, inits, http,
                 statusCount, lastStatusAt, verifyStartAt, nPending, sawError,
                 pricingFetches, lastError, auth, events, router>>

----------------------------------------------------------------------------
(* The bodies of the api service's entry points. A JavaScript value is     *)
(* tagged with its type; a string is the sequence of its characters; an    *)
(* object is the sequence of its entries in the order of Object.entries(). *)

Str(s) == [t |-> "str", v |-> s]
JsNull == [t |-> "null"]
Entry(k, v) == [k |-> k, v |-> v]
Obj(entries) == [t |-> "obj", v |-> entries]
Arr(items) == [t |-> "arr", v |-> items]

RECURSIVE Join(_, _)
\* Array.prototype.join
Join(parts, sep) ==
  IF Len(parts) = 0 THEN <<>>
  ELSE IF Len(parts) = 1 THEN parts[1]
  ELSE parts[1] \o sep \o Join(Tail(parts), sep)

\* The text a character has in the innerHTML of a text node.
EscapeChar(c) ==
  IF c = "&" THEN <<"&", "a", "m", "p", ";">>
  ELSE IF c = "<" THEN <<"&", "l", "t", ";">>
  ELSE IF c = ">" THEN <<"&", "g", "t", ";">>
  ELSE <<c>>

RECURSIVE SanitizeHTML(_)
\* sanitizeHTML(input) for a string: div.textContent = input; div.innerHTML
SanitizeHTML(input) ==
  IF input = <<>> THEN <<>>
  ELSE EscapeChar(Head(input)) \o SanitizeHTML(Tail(input))

IndexKeys == <<"0", "1", "2">>

\* Object.entries(obj): the entries of an object, the indices and items of
\* an array.
Entries(obj) ==
  IF obj.t = "arr"
    THEN [i \in DOMAIN obj.v |-> Entry(<<IndexKeys[i]>>, obj.v[i])]
    ELSE obj.v

RECURSIVE SanitizeObject(_)
\* sanitizeObject(obj): a new object with the strings sanitized and the
\* objects (arrays are objects) sanitized in turn.
SanitizeObject(obj) ==
  Obj([i \in DOMAIN Entries(obj) |->
        LET key == Entries(obj)[i].k
            value == Entries(obj)[i].v
        IN  IF value.t = "str" THEN Entry(key, Str(SanitizeHTML(value.v)))
            ELSE IF value.t \in {"obj", "arr"}
              THEN Entry(key, SanitizeObject(value))
            ELSE Entry(key, value)])

RECURSIVE JsonEscape(_)
\* The characters of a string inside a JSON string literal.
JsonEscape(str) ==
  IF str = <<>> THEN <<>>
  ELSE (IF Head(str) \in {"\"", "\\"} THEN <<"\\", Head(str)>>
        ELSE <<Head(str)>>) \o JsonEscape(Tail(str))

Quote(str) == <<"\"">> \o JsonEscape(str) \o <<"\"">>

RECURSIVE JsonStringify(_)
\* JSON.stringify(value)
JsonStringify(value) ==
  IF value.t = "str" THEN Quote(value.v)
  ELSE IF value.t = "obj"
    THEN <<"{">> \o
         Join([i \in DOMAIN value.v |->
                Quote(value.v[i].k) \o <<":">> \o JsonStringify(value.v[i].v)],
              <<",">>) \o <<"}">>
  ELSE IF value.t = "arr"
    THEN <<"[">> \o
         Join([i \in DOMAIN value.v |-> JsonStringify(value.v[i])], <<",">>)
         \o <<"]">>
  ELSE <<"n", "u", "l", "l">>

RECURSIVE ValueToString(_)
\* value.toString() of a string, an array, another object.
ValueToString(value) ==
  IF value.t = "str" THEN value.v
  ELSE IF value.t = "arr"
    THEN Join([i \in DOMAIN value.v |->
                IF value.v[i].t = "null" THEN <<>> ELSE ValueToString(value.v[i])],
              <<",">>)
  ELSE <<"[", "o", "b", "j", "e", "c", "t", " ", "O", "b", "j", "e", "c",
         "t", "]">>

\* The application/x-www-form-urlencoded byte serializer for one character.
PercentChar(c) ==
  IF c = " " THEN <<"+">>
  ELSE IF c = "<" THEN <<"%", "3", "C">>
  ELSE IF c = ">" THEN <<"%", "3", "E">>
  ELSE IF c = "&" THEN <<"%", "2", "6">>
  ELSE IF c = ";" THEN <<"%", "3", "B">>
  ELSE IF c = "\"" THEN <<"%", "2", "2">>
  ELSE IF c = "," THEN <<"%", "2", "C">>
  ELSE IF c = "[" THEN <<"%", "5", "B">>
  ELSE IF c = "]" THEN <<"%", "5", "D">>
  ELSE <<c>>

RECURSIVE PercentEncode(_)
PercentEncode(str) ==
  IF str = <<>> THEN <<>>
  ELSE PercentChar(Head(str)) \o PercentEncode(Tail(str))

\* patchForm's loop: the entries whose value is neither null nor undefined,
\* each appended with value.toString().
FormEntries(data) ==
  LET kept == SelectSeq(data.v, LAMBDA e : e.v.t # "null")
  IN  Obj([i \in DOMAIN kept |-> Entry(kept[i].k, Str(ValueToString(kept[i].v)))])

\* URLSearchParams.prototype.toString()
FormToString(form) ==
  Join([i \in DOMAIN form.v |->
         PercentEncode(form.v[i].k) \o <<"=">> \o PercentEncode(form.v[i].v.v)],
       <<"&">>)

\* The multipart/form-data body the browser makes of a FormData: per entry
\* a boundary line, the name and the value as it is.
Multipart(form) ==
  Join([i \in DOMAIN form.v |->
         <<"-", "-">> \o form.v[i].k \o <<":">> \o ValueToString(form.v[i].v)],
       <<>>)

\* The entry points hand the data to makeRequest() as it is.
SanitizeNothing(data) == data

\* sanitizeObject() as post(), put() and patch() call it.
Sanitized(data) == SanitizeObject(data)

\* post(), put(), patch(): method is the entry point's HTTP method.
SendJson(method, data, includeAuth) ==
  /\ req.pc = "idle"
  /\ href = Null
  /\ SetStores(BuildHeaders(Cur, now, includeAuth).st)
  /\ req' = Sent(method, "json", data, Sanitized(data),
                 JsonStringify(Sanitized(data)))
  /\ UNCHANGED <<now, op, ret, location, href, urlParams, loads, currentUser,
                 currentCountry, pricingData, statusView, pricingHidden,
                 pricingFailed, loadPc, ctorPc, verify, inits, http,
                 statusCount, lastStatusAt, verifyStartAt, nPending, sawError,
                 pricingFetches, lastError, auth, events, router>>

Post(data, includeAuth) == SendJson("POST", data, includeAuth)

Put(data, includeAuth) == SendJson("PUT", data, includeAuth)

Patch(data, includeAuth) == SendJson("PATCH", data, includeAuth)

\* patchForm(endpoint, data, includeAuth): getToken() is called whatever
\* includeAuth is.
PatchForm(data, includeAuth) ==
  /\ req.pc = "idle"
  /\ href = Null
  /\ SetStores(GetToken(Cur, now).st)
  /\ req' = Sent("PATCH", "form", data, FormEntries(data),
                 FormToString(FormEntries(data)))
  /\ UNCHANGED <<now, op, ret, location, href, urlParams, loads, currentUser,
                 currentCountry, pricingData, statusView, pricingHidden,
                 pricingFailed, loadPc, ctorPc, verify, inits, http,
                 statusCount, lastStatusAt, verifyStartAt, nPending, sawError,
                 pricingFetches, lastError, auth, events, router>>

\* upload(endpoint, formData, includeAuth)
Upload(formData, includeAuth) ==
  /\ req.pc = "idle"
  /\ href = Null
  /\ SetStores(GetToken(Cur, now).st)
  /\ req' = Sent("POST", "multipart", formData, formData, Multipart(formData))
  /\ UNCHANGED <<now, op, ret, location, href, urlParams, loads, currentUser,
                 currentCountry, pricingData, statusView, pricingHidden,
                 pricingFailed, loadPc, ctorPc, verify, inits, http,
                 statusCount, lastStatusAt, verifyStartAt, nPending, sawError,
                 pricingFetches, lastError, auth, events, router>>

\* delete(endpoint, includeAuth)
Delete(includeAuth) ==
  /\ req.pc = "idle"
  /\ href = Null
  /\ SetStores(BuildHeaders(Cur, now, includeAuth).st)
  /\ req' = Sent("DELETE", Null, NoJson, NoJson, <<>>)
  /\ UNCHANGED <<now, op, ret, location, href, urlParams, loads, currentUser,
                 currentCountry, pricingData, statusView, pricingHidden,
                 pricingFailed, loadPc, ctorPc, verify, inits, http,
                 statusCount, lastStatusAt, verifyStartAt, nPending, sawError,
                 pricingFetches, lastError, auth, events, router>>

----------------------------------------------------------------------------
(* The router service: the route guard and the token refresh timer *)

Pages == {"index", "login", "register", "profile", "subscription", "dashboard"}

MaxChecks == 3

\* isProtectedRoute(path): the path contains the file name of one of these
\* pages.
RouterIsProtectedRoute(path) == path \in {"profile", "subscription", "dashboard"}

\* Also the profile page counts as an auth page.
IsAuthPageOrProfile(path) == path \in {"login", "register", "profile"}

\* isAuthPage(path)
IsAuthPage(path) == path \in {"login", "register"}

\* currentPath + window.location.search
Intended(path, search) == [path |-> path, search |-> search]

\* The guard stores nothing before it redirects to the login page.
ToLoginUnstored(path, search, st) == [st |-> st, to |-> "login"]

\* The first branch of checkRouteAccess(): the intended destination is
\* stored and the login page is navigated to.
ToLogin(path, search, st) ==
  [st |-> Stores([st.session EXCEPT
                    !.redirectAfterLogin = Intended(path, search)],
                 st.local),
   to |-> "login"]

\* checkRouteAccess(): the storages it leaves and the page it navigates to
\* ("none": it returns true). isAuthenticated() is called, with its side
\* effect, once or twice.
RouteAccess(path, search, st, t) ==
  IF RouterIsProtectedRoute(path) /\ ~IsAuthenticated(st, t).ret
    THEN ToLogin(path, search, IsAuthenticated(st, t).st)
    ELSE LET st1 == IF RouterIsProtectedRoute(path)
                      THEN IsAuthenticated(st, t).st ELSE st
         IN  IF IsAuthenticated(st1, t).ret /\ IsAuthPage(path)
               THEN [st |-> IsAuthenticated(st1, t).st, to |-> "profile"]
               ELSE [st |-> IsAuthenticated(st1, t).st, to |-> "none"]

\* The router after checkRouteAccess() made its decision; navigate(path,
\* true) is location.replace(path).
Checked(r, to, authed) ==
  [r EXCEPT !.checks = @ + 1, !.decision = to, !.authed = authed,
            !.replace = IF to = "none" THEN @ ELSE TRUE]

\* new RouterService(): init() checks the route, starts the refresh check
\* when isAuthenticated() and adds the listener.
Constructed(path, search, st, t) ==
  LET a == RouteAccess(path, search, st, t)
      r == Checked([NoRouter EXCEPT !.up = TRUE], a.to,
                   IsAuthenticated(st, t).ret)
  IN  IF IsAuthenticated(a.st, t).ret THEN StartTokenRefreshCheck(r, t) ELSE r

\* checkRouteAccess() called on a page whose router is up.
CheckRouteAccess ==
  /\ router.up
  /\ router.checks < MaxChecks
  /\ LET a == RouteAccess(location, urlParams, Cur, now)
     IN  /\ SetStores(a.st)
         /\ href' = IF a.to = "none" THEN href ELSE a.to
         /\ router' = Checked(router, a.to, IsAuthenticated(Cur, now).ret)
  /\ UNCHANGED <<now, op, ret, location, urlParams, loads, currentUser,
                 currentCountry, pricingData, statusView, pricingHidden,
                 pricingFailed, loadPc, ctorPc, verify, inits, http,
                 statusCount, lastStatusAt, verifyStartAt, nPending, sawError,
                 pricingFetches, lastError, auth, events, req>>

\* redirect.includes(page + '.html'), redirect being the stored path and
\* query string; the query strings here name no page file.
Includes(redirect, page) == redirect.path = page

\* The stored destination is read and left in sessionStorage.
RedirectKept(st) == st

\* sessionStorage.removeItem('redirectAfterLogin')
RedirectRemoved(st) ==
  Stores([st.session EXCEPT
            !.redirectAfterLogin = [path |-> Null, search |-> Null]],
         st.local)

\* The path getRedirectPath() returns for the stored value it read.
RedirectPath(redirect) ==
  IF redirect.path # Null /\ Includes(redirect, "profile") THEN "profile"
  ELSE IF redirect.path # Null /\ Includes(redirect, "subscription")
    THEN "subscription"
  ELSE IF redirect.path # Null /\ Includes(redirect, "dashboard")
    THEN "dashboard"
  ELSE "profile"

\* getRedirectPath() called on a page whose router is up.
GetRedirectPath ==
  /\ router.up
  /\ op' = [name |-> "getRedirectPath",
            redirect |-> sessionStorage.redirectAfterLogin.path,
            previous |-> IF op.name = "getRedirectPath" THEN ret ELSE Null]
  /\ ret' = RedirectPath(sessionStorage.redirectAfterLogin)
  /\ SetStores(RedirectRemoved(Cur))
  /\ UNCHANGED <<now, location, href, urlParams, loads, currentUser,
                 currentCountry, pricingData, statusView, pricingHidden,
                 pricingFailed, loadPc, ctorPc, verify, inits, http,
                 statusCount, lastStatusAt, verifyStartAt, nPending, sawError,
                 pricingFetches, lastError, auth, events, req, router>>

\* The callback of the interval never asks for a refresh.
TickRefreshesNever(st, t) == FALSE

\* The callback of the interval: if (securityManager.needsRefresh())
TickRefreshes(st, t) == NeedsRefresh(st, t)

\* An interval of the page is due: its callback runs up to its first await,
\* the request of authService.refreshToken(), or to its end. The interval
\* is due again a minute later.
TimerFires(x) ==
  /\ x \in router.timers
  /\ x.due = now
  /\ router.tick = "idle"
  /\ auth.pc = "idle"
  /\ auth.n < MaxCalls
  /\ href = Null
  /\ LET timers == (router.timers \ {x}) \cup
                     {[x EXCEPT !.due = now + refreshCheckDelay]}
     IN  IF TickRefreshes(Cur, now)
           THEN /\ SetStores(GetToken(Cur, now).st)
                /\ auth' = [AuthCalled("refresh", <<>>, <<>>, FALSE) EXCEPT
                              !.pc = "await",
                              !.bearer = GetToken(Cur, now).ret]
                /\ router' = [router EXCEPT !.timers = timers,
                                            !.tick = "refresh"]
           ELSE /\ router' = [router EXCEPT !.timers = timers]
                /\ UNCHANGED <<sessionStorage, localStorage, auth>>
  /\ UNCHANGED <<now, op, ret, location, href, urlParams, loads, currentUser,
                 currentCountry, pricingData, statusView, pricingHidden,
                 pricingFailed, loadPc, ctorPc, verify, inits, http,
                 statusCount, lastStatusAt, verifyStartAt, nPending, sawError,
                 pricingFetches, lastError, events, req>>

\* The callback leaves a refreshToken() that returned false as it is.
AfterRefreshNoLogout(refreshed, data, st, h) ==
  /\ UNCHANGED <<currentUser, events>>
  /\ SetStores(st)
  /\ href' = h
  /\ auth' = AuthEnded(data, IF refreshed THEN "true" ELSE "false")
  /\ router' = [router EXCEPT !.tick = "idle"]

\* The callback after refreshToken() returned, with the storages and the
\* location.href its request left: if (!refreshed) await
\* authService.logout(), which makes its request when isAuthenticated() and
\* otherwise runs to its end.
AfterRefresh(refreshed, data, st, h) ==
  IF refreshed
    THEN /\ SetStores(st)
         /\ href' = h
         /\ auth' = AuthEnded(data, "true")
         /\ router' = [router EXCEPT !.tick = "idle"]
         /\ UNCHANGED <<currentUser, events>>
    ELSE IF IsAuthenticated(st, now).ret
      THEN /\ SetStores(IsAuthenticated(st, now).st)
           /\ href' = h
           /\ auth' = [AuthCalled("logout", <<>>, <<>>, FALSE) EXCEPT
                         !.pc = "await",
                         !.bearer = GetToken(st, now).ret]
           /\ router' = [router EXCEPT !.tick = "logout"]
           /\ UNCHANGED <<currentUser, events>>
      ELSE /\ auth' = [AuthCalled("logout", <<>>, <<>>, FALSE) EXCEPT
                         !.result = "done"]
           /\ LogoutFinish(ClearToken(IsAuthenticated(st, now).st))

\* The refresh request of the callback is answered 2xx.
TimerRefreshReturns(data) ==
  /\ auth.pc = "await"
  /\ auth.call = "refresh"
  /\ router.tick = "refresh"
  /\ AfterRefresh(RefreshResult(data) = "true", data,
                  IF LoginSucceeds(data)
                    THEN StoreToken(Cur, data.token,
                                    ExpiresInOr(data.expiresIn),
                                    RememberMe(Cur), now)
                    ELSE Cur,
                  href)
  /\ UNCHANGED <<now, op, ret, location, urlParams, loads, currentCountry,
                 pricingData, statusView, pricingHidden, pricingFailed,
                 loadPc, ctorPc, verify, inits, http, statusCount,
                 lastStatusAt, verifyStartAt, nPending, sawError,
                 pricingFetches, lastError, req>>

\* The refresh request of the callback fails: refreshToken() returns false.
TimerRefreshFails(kind) ==
  /\ auth.pc = "await"
  /\ auth.call = "refresh"
  /\ router.tick = "refresh"
  /\ AfterRefresh(FALSE, NoData, StoresAfterFailure(location, kind, Cur),
                  HrefAfterFailure(location, kind, href))
  /\ UNCHANGED <<now, op, ret, location, urlParams, loads, currentCountry,
                 pricingData, statusView, pricingHidden, pricingFailed,
                 loadPc, ctorPc, verify, inits, http, statusCount,
                 lastStatusAt, verifyStartAt, nPending, sawError,
                 pricingFetches, lastError, req>>

----------------------------------------------------------------------------
(* The callbacks of the refresh interval and the logout button, each with   *)
(* its own request: a callback that awaits its request does not keep the    *)
(* next one from running.                                                   *)

\* The callbacks of the interval that can be under way at a time here.
TickSlots == {"tick1", "tick2"}

\* authService.logout() called by p with the storages st and location.href
\* h: its request when isAuthenticated(), otherwise the whole of it at once.
CallbackLogout(p, st, h) ==
  IF IsAuthenticated(st, now).ret
    THEN /\ UNCHANGED <<currentUser, events, router>>
         /\ SetStores(IsAuthenticated(st, now).st)
         /\ href' = h
         /\ http' = [http EXCEPT ![p] = NewReq("logout", Null, st, now, TRUE)]
    ELSE /\ LogoutFinish(ClearToken(IsAuthenticated(st, now).st))
         /\ http' = [http EXCEPT ![p] = NoReq]

\* The slot the next callback of the interval takes.
FreeSlot == IF ~InFlight("tick1") THEN "tick1" ELSE "tick2"

\* An interval of the page is due: its callback runs up to the request of
\* authService.refreshToken(), or to its end, whatever the callbacks before
\* it await. The interval is due again a minute later.
IntervalFires(x) ==
  /\ x \in router.timers
  /\ x.due = now
  /\ href = Null
  /\ ~InFlight(FreeSlot)
  /\ router' = [router EXCEPT
                  !.timers = (@ \ {x}) \cup
                               {[x EXCEPT !.due = now + refreshCheckDelay]}]
  /\ IF TickRefreshes(Cur, now)
       THEN /\ SetStores(GetToken(Cur, now).st)
            /\ http' = [http EXCEPT
                          ![FreeSlot] = NewReq("refresh", Null, Cur, now, TRUE)]
       ELSE UNCHANGED <<sessionStorage, localStorage, http>>
  /\ UNCHANGED <<now, op, ret, location, href, urlParams, loads, currentUser,
                 currentCountry, pricingData, statusView, pricingHidden,
                 pricingFailed, loadPc, ctorPc, verify, inits, statusCount,
                 lastStatusAt, verifyStartAt, nPending, sawError,
                 pricingFetches, lastError, auth, events, req>>

\* The refresh request of callback p is answered 2xx: refreshToken() stores
\* the token and returns true, or returns false and the callback calls
\* logout().
IntervalRefreshReturns(p, data) ==
  /\ p \in TickSlots
  /\ http[p].ep = "refresh"
  /\ IF RefreshResult(data) = "true"
       THEN /\ SetStores(StoreToken(Cur, data.token,
                                    ExpiresInOr(data.expiresIn),
                                    RememberMe(Cur), now))
            /\ http' = [http EXCEPT ![p] = NoReq]
            /\ UNCHANGED <<href, currentUser, events, router>>
       ELSE CallbackLogout(p, Cur, href)
  /\ UNCHANGED <<now, op, ret, location, urlParams, loads, currentCountry,
                 pricingData, statusView, pricingHidden, pricingFailed,
                 loadPc, ctorPc, verify, inits, statusCount, lastStatusAt,
                 verifyStartAt, nPending, sawError, pricingFetches, lastError,
                 auth, req>>

\* The refresh request of callback p fails: refreshToken() returns false and
\* the callback calls logout().
IntervalRefreshFails(p, kind) ==
  /\ p \in TickSlots
  /\ http[p].ep = "refresh"
  /\ CallbackLogout(p, StoresAfterFailure(location, kind, Cur),
                    HrefAfterFailure(location, kind, href))
  /\ UNCHANGED <<now, op, ret, location, urlParams, loads, currentCountry,
                 pricingData, statusView, pricingHidden, pricingFailed,
                 loadPc, ctorPc, verify, inits, statusCount, lastStatusAt,
                 verifyStartAt, nPending, sawError, pricingFetches, lastError,
                 auth, req>>

\* handleLogout(): the user confirms, authService.logout() is called.
HandleLogout ==
  /\ router.up
  /\ href = Null
  /\ ~InFlight("logout")
  /\ CallbackLogout("logout", Cur, href)
  /\ UNCHANGED <<now, op, ret, location, urlParams, loads, currentCountry,
                 pricingData, statusView, pricingHidden, pricingFailed,
                 loadPc, ctorPc, verify, inits, statusCount, lastStatusAt,
                 verifyStartAt, nPending, sawError, pricingFetches, lastError,
                 auth, req>>

\* The logout request of p is answered ("ok") or fails: logout() goes on
\* either way.
CallbackLogoutReturns(p, kind) ==
  /\ p \in TickSlots \cup {"logout"}
  /\ http[p].ep = "logout"
  /\ LogoutFinish(LogoutStores(location, kind, Cur))
  /\ http' = [http EXCEPT ![p] = NoReq]
  /\ UNCHANGED <<now, op, ret, location, urlParams, loads, currentCountry,
                 pricingData, statusView, pricingHidden, pricingFailed,
                 loadPc, ctorPc, verify, inits, statusCount, lastStatusAt,
                 verifyStartAt, nPending, sawError, pricingFetches, lastError,
                 auth, req>>

----------------------------------------------------------------------------
(* js/subscription.js: the page and its load handler *)

DEFAULT_COUNTRY == "NG"

Refs == {"r1", "r2"}

\* The query strings a load of the page can carry: each parameter is absent
\* (Null), empty or a reference.
Url(reference, tx_ref, trxref) ==
  [reference |-> reference, tx_ref |-> tx_ref, trxref |-> trxref]

Urls ==
  {Url(Null, Null, Null), Url("r1", Null, Null), Url(Null, "r2", Null),
   Url(Null, Null, "r1"), Url("r2", "r1", Null), Url("", "r1", "r2"),
   Url(Null, "r2", "r1")}

\* a || b on strings and null: the first that is neither null nor empty.
Or(a, b) == IF a # Null /\ a # "" THEN a ELSE b

\* trxref is looked at before tx_ref.
ReferenceTrxFirst(url, ss) ==
  Or(url.reference,
     Or(url.trxref, Or(url.tx_ref, ss.pending_payment_reference)))

\* handlePaymentRedirect(): the reference, Null or "" when there is none.
Reference(url, ss) ==
  Or(url.reference,
     Or(url.tx_ref, Or(url.trxref, ss.pending_payment_reference)))

IdleVerify ==
  [pc |-> "idle", reference |-> Null, due |-> 0, awaited |-> FALSE,
   status |-> Null]

\* No verification has ended in an error yet.
NoError == [reference |-> Null, url |-> Url(Null, Null, Null), load |-> 0]

\* An initiatePayment() call: where it stands, its arguments, the timer it
\* set, the response data it got and how it ended.
NoInit ==
  [pc |-> "idle", plan |-> Null, enableAutoRenew |-> Null, due |-> 0,
   data |-> [authUrl |-> Null, reference |-> Null], result |-> Null]

InitSlots == {"init1", "init2"}

\* No subscription page is loaded: no script state, nothing in flight.
NoPage ==
  /\ urlParams = Url(Null, Null, Null)
  /\ currentUser = Null
  /\ currentCountry = Null
  /\ pricingData = Null
  /\ statusView = "hidden"
  /\ pricingHidden = FALSE
  /\ pricingFailed = FALSE
  /\ loadPc = "none"
  /\ ctorPc = "none"
  /\ verify = IdleVerify
  /\ inits = [p \in InitSlots |-> NoInit]
  /\ http = [p \in Procs |-> NoReq]
  /\ statusCount = 0
  /\ lastStatusAt = -1
  /\ verifyStartAt = -1
  /\ nPending = 0
  /\ sawError = FALSE
  /\ pricingFetches = <<>>
  /\ auth = IdleAuth
  /\ events = <<>>
  /\ req = IdleReq
  /\ router = NoRouter

\* The page's script state is discarded.
ClosePage ==
  /\ urlParams' = Url(Null, Null, Null)
  /\ currentUser' = Null
  /\ currentCountry' = Null
  /\ pricingData' = Null
  /\ statusView' = "hidden"
  /\ pricingHidden' = FALSE
  /\ pricingFailed' = FALSE
  /\ loadPc' = "none"
  /\ ctorPc' = "none"
  /\ verify' = IdleVerify
  /\ inits' = [p \in InitSlots |-> NoInit]
  /\ http' = [p \in Procs |-> NoReq]
  /\ statusCount' = 0
  /\ lastStatusAt' = -1
  /\ verifyStartAt' = -1
  /\ nPending' = 0
  /\ sawError' = FALSE
  /\ pricingFetches' = <<>>
  /\ auth' = IdleAuth
  /\ events' = <<>>
  /\ req' = IdleReq
  /\ router' = NoRouter

\* loadCurrentUser() up to its request: the profile request when
\* isAuthenticated(), nothing otherwise.
UserReq(st, t) ==
  IF IsAuthenticated(st, t).ret
    THEN NewReq("profile", Null, IsAuthenticated(st, t).st, t, TRUE)
    ELSE NoReq

\* What a 2xx answer of an endpoint carries: data or nothing usable.
Answers == {"ok", "nodata"}

\* loadCurrentUser() is over: currentUser is response.data on a 2xx answer,
\* and is left as it was on an error, which clears the token.
UserAfter(kind, user) ==
  IF kind = "ok" THEN "U1" ELSE IF kind = "nodata" THEN Null ELSE user

StoresAfterUser(kind, st) == IF kind \in Answers THEN st ELSE ClearToken(st)

\* The browser loads the subscription page with query string url. The scripts
\* are evaluated: new AuthService() calls loadCurrentUser().
PageLoad(url) ==
  /\ loads < MaxLoads
  /\ loads' = loads + 1
  /\ location' = "subscription"
  /\ href' = Null
  /\ urlParams' = url
  /\ currentUser' = Null
  /\ currentCountry' = Null
  /\ pricingData' = Null
  /\ statusView' = "hidden"
  /\ pricingHidden' = FALSE
  /\ pricingFailed' = FALSE
  /\ loadPc' = "start"
  /\ verify' = IdleVerify
  /\ inits' = [p \in InitSlots |-> NoInit]
  /\ SetStores(IsAuthenticated(Cur, now).st)
  /\ http' = [p \in Procs |-> IF p = "ctor" THEN UserReq(Cur, now) ELSE NoReq]
  /\ ctorPc' = IF IsAuthenticated(Cur, now).ret THEN "user" ELSE "done"
  /\ statusCount' = 0
  /\ lastStatusAt' = -1
  /\ verifyStartAt' = -1
  /\ nPending' = 0
  /\ sawError' = FALSE
  /\ pricingFetches' = <<>>
  /\ UNCHANGED <<now, op, ret, lastError, auth, events, req, router>>

\* The constructor's loadCurrentUser() gets its answer: the profile, or an
\* error, on which it clears the token.
CtorUserReturns(kind) ==
  /\ location = "subscription"
  /\ ctorPc = "user"
  /\ InFlight("ctor")
  /\ kind \in Answers \/ kind \in Failures
  /\ currentUser' = UserAfter(kind, currentUser)
  /\ SetStores(StoresAfterUser(kind, Cur))
  /\ href' = HrefAfter(kind, href)
  /\ ctorPc' = "done"
  /\ http' = [http EXCEPT !["ctor"] = NoReq]
  /\ UNCHANGED <<now, op, ret, location, urlParams, loads, currentCountry,
                 pricingData, statusView, pricingHidden, pricingFailed,
                 loadPc, verify, inits, statusCount, lastStatusAt,
                 verifyStartAt, nPending, sawError, pricingFetches, lastError,
                 auth, events, req, router>>

\* DOMContentLoaded: not authenticated, to the login page; otherwise
\* loadCurrentUser() is awaited.
DOMContentLoaded ==
  /\ location = "subscription"
  /\ loadPc = "start"
  /\ LET a == IsAuthenticated(Cur, now)
     IN  /\ SetStores(a.st)
         /\ href' = IF a.ret THEN href ELSE "login"
         /\ loadPc' = IF a.ret THEN "user" ELSE "denied"
         /\ http' = [http EXCEPT !["load"] = UserReq(Cur, now)]
  /\ UNCHANGED <<now, op, ret, location, urlParams, loads, currentUser,
                 currentCountry, pricingData, statusView, pricingHidden,
                 pricingFailed, ctorPc, verify, inits, statusCount,
                 lastStatusAt, verifyStartAt, nPending, sawError,
                 pricingFetches, lastError, auth, events, req, router>>

\* loadCurrentUser() returns to the handler, which awaits
\* loadCurrentSubscription(): GET /payments/me.
LoadUserReturns(kind) ==
  /\ location = "subscription"
  /\ loadPc = "user"
  /\ InFlight("load")
  /\ kind \in Answers \/ kind \in Failures
  /\ currentUser' = UserAfter(kind, currentUser)
  /\ LET st == StoresAfterUser(kind, Cur)
     IN  /\ SetStores(BuildHeaders(st, now, TRUE).st)
         /\ http' = [http EXCEPT !["load"] = NewReq("me", Null, st, now, TRUE)]
  /\ href' = HrefAfter(kind, href)
  /\ loadPc' = "sub"
  /\ UNCHANGED <<now, op, ret, location, urlParams, loads, currentCountry,
                 pricingData, statusView, pricingHidden, pricingFailed,
                 ctorPc, verify, inits, statusCount, lastStatusAt,
                 verifyStartAt, nPending, sawError, pricingFetches, lastError,
                 auth, events, req, router>>

graceDelay == 2000
pollDelay == 5000

\* The callback may run at once.
DueNow(ms) == now

\* setTimeout(fn, ms): the earliest Date.now() at which fn runs.
Due(ms) == now + ms

\* loadCurrentSubscription() returns and handlePaymentRedirect() runs: without
\* a reference the handler goes on to initializeSubscriptionPage(), whose
\* detectUserCountry() fetches the geolocation service; with one, the pricing
\* section is hidden, the status view shown and verifyPaymentStatus(reference)
\* awaited, which starts with its 2 s delay.
LoadSubReturns(kind) ==
  /\ location = "subscription"
  /\ loadPc = "sub"
  /\ InFlight("load")
  /\ kind \in Answers \/ kind \in Failures
  /\ SetStores(After401(Cur, kind))
  /\ href' = HrefAfter(kind, href)
  /\ http' = [http EXCEPT !["load"] = NoReq]
  /\ LET reference == Reference(urlParams, sessionStorage)
     IN  IF Falsy(reference)
           THEN /\ loadPc' = "country"
                /\ UNCHANGED <<pricingHidden, statusView, verify, verifyStartAt>>
           ELSE /\ loadPc' = "verify"
                /\ pricingHidden' = TRUE
                /\ statusView' = "verifying"
                /\ verify' = [IdleVerify EXCEPT
                                !.pc = "grace", !.reference = reference,
                                !.due = Due(graceDelay), !.awaited = TRUE]
                /\ verifyStartAt' = now
  /\ UNCHANGED <<now, op, ret, location, urlParams, loads, currentUser,
                 currentCountry, pricingData, pricingFailed, ctorPc, inits,
                 statusCount, lastStatusAt, nPending, sawError,
                 pricingFetches, lastError, auth, events, req, router>>

\* verifyPaymentStatus(): the delay is over, GET /payments/status/{reference}.
VerifyRequest ==
  /\ location = "subscription"
  /\ verify.pc = "grace"
  /\ now >= verify.due
  /\ SetStores(BuildHeaders(Cur, now, TRUE).st)
  /\ http' = [http EXCEPT
                !["verify"] = NewReq("status", verify.reference, Cur, now, TRUE)]
  /\ verify' = [verify EXCEPT !.pc = "flight", !.due = 0, !.status = Null]
  /\ statusCount' = statusCount + 1
  /\ lastStatusAt' = now
  /\ UNCHANGED <<now, op, ret, location, href, urlParams, loads, currentUser,
                 currentCountry, pricingData, statusView, pricingHidden,
                 pricingFailed, loadPc, ctorPc, inits, verifyStartAt,
                 nPending, sawError, pricingFetches, lastError, auth, events,
                 req, router>>

\* response.data.status
Statuses == {"success", "pending", "failed", "abandoned"}

\* Only 'failed' is taken as a failure, any unknown status as still pending.
StatusBranchNamed(status) ==
  IF status = "success" THEN "success"
  ELSE IF status = "failed" THEN "failed"
  ELSE "pending"

\* The branch verifyPaymentStatus() takes on response.data.status.
StatusBranch(status) ==
  IF status = "success" THEN "success"
  ELSE IF status = "pending" THEN "pending"
  ELSE "failed"

\* Only the reference is removed, the plan entry stays.
RemovePendingReferenceOnly(st) ==
  Stores([st.session EXCEPT !.pending_payment_reference = Null], st.local)

\* sessionStorage.removeItem() of the two pending_payment keys.
RemovePending(st) ==
  Stores([st.session EXCEPT !.pending_payment_reference = Null,
                            !.pending_payment_plan = Null],
         st.local)

\* The handler's await of handlePaymentRedirect() ends with this invocation.
ResumedLoadPc == IF verify.awaited THEN "country" ELSE loadPc

\* The chain gives up with the second 'pending' answer.
NextPcCapped(branch, k) ==
  CASE branch = "success" -> "resub"
    [] branch = "pending" /\ k < 1 -> "wait"
    [] OTHER -> "done"

\* A 'failed' answer sets the 5 s timer as a 'pending' one does.
NextPcRepolls(branch, k) ==
  CASE branch = "success" -> "resub"
    [] OTHER -> "wait"

\* Where the chain stands after an answer, the page having had k 'pending'
\* answers before: 'pending' sets the 5 s timer however many there were.
NextPc(branch, k) ==
  CASE branch = "success" -> "resub"
    [] branch = "pending" -> "wait"
    [] OTHER -> "done"

\* The status call returns data with a status.
VerifyReturns(status) ==
  /\ location = "subscription"
  /\ verify.pc = "flight"
  /\ InFlight("verify")
  /\ status \in Statuses
  /\ status = "pending" => nPending < MaxPolls
  /\ LET branch == StatusBranch(status)
     IN  /\ statusView' = branch
         /\ SetStores(IF branch \in {"success", "failed"}
                        THEN BuildHeaders(RemovePending(Cur), now,
                                          branch = "success").st
                        ELSE Cur)
         /\ http' = [http EXCEPT
                       !["verify"] =
                         IF branch = "success"
                           THEN NewReq("me", Null, Cur, now, TRUE)
                           ELSE NoReq]
         /\ verify' = [verify EXCEPT
                         !.pc = NextPc(branch, nPending),
                         !.due = IF branch = "pending"
                                   THEN Due(pollDelay) ELSE verify.due,
                         !.awaited = (branch = "success" /\ verify.awaited),
                         !.status = status]
         /\ loadPc' = IF branch = "success" THEN loadPc ELSE ResumedLoadPc
  /\ nPending' = IF status = "pending" THEN nPending + 1 ELSE nPending
  /\ UNCHANGED <<now, op, ret, location, href, urlParams, loads, currentUser,
                 currentCountry, pricingData, pricingHidden, pricingFailed,
                 ctorPc, inits, statusCount, lastStatusAt, verifyStartAt,
                 sawError, pricingFetches, lastError, auth, events, req,
                 router>>

\* The catch branch removes the pending_payment keys as the else branch does.
VerifyFailsClearing(kind) ==
  /\ location = "subscription"
  /\ verify.pc = "flight"
  /\ InFlight("verify")
  /\ kind = "nodata" \/ kind \in Failures
  /\ statusView' = "error"
  /\ SetStores(RemovePending(After401(Cur, kind)))
  /\ href' = HrefAfter(kind, href)
  /\ http' = [http EXCEPT !["verify"] = NoReq]
  /\ verify' = [verify EXCEPT !.pc = "done", !.awaited = FALSE]
  /\ loadPc' = ResumedLoadPc
  /\ sawError' = TRUE
  /\ lastError' = [reference |-> verify.reference, url |-> urlParams,
                   load |-> loads]
  /\ UNCHANGED <<now, op, ret, location, urlParams, loads, currentUser,
                 currentCountry, pricingData, pricingHidden, pricingFailed,
                 ctorPc, inits, statusCount, lastStatusAt, verifyStartAt,
                 nPending, pricingFetches, auth, events, req, router>>

\* The status call returns no data, or throws: displayPaymentError().
VerifyFails(kind) ==
  /\ location = "subscription"
  /\ verify.pc = "flight"
  /\ InFlight("verify")
  /\ kind = "nodata" \/ kind \in Failures
  /\ statusView' = "error"
  /\ SetStores(After401(Cur, kind))
  /\ href' = HrefAfter(kind, href)
  /\ http' = [http EXCEPT !["verify"] = NoReq]
  /\ verify' = [verify EXCEPT !.pc = "done", !.awaited = FALSE]
  /\ loadPc' = ResumedLoadPc
  /\ sawError' = TRUE
  /\ lastError' = [reference |-> verify.reference, url |-> urlParams,
                   load |-> loads]
  /\ UNCHANGED <<now, op, ret, location, urlParams, loads, currentUser,
                 currentCountry, pricingData, pricingHidden, pricingFailed,
                 ctorPc, inits, statusCount, lastStatusAt, verifyStartAt,
                 nPending, pricingFetches, auth, events, req, router>>

\* After a success, loadCurrentSubscription() returns; its own catch keeps
\* any error.
VerifySubReturns(kind) ==
  /\ location = "subscription"
  /\ verify.pc = "resub"
  /\ InFlight("verify")
  /\ kind \in Answers \/ kind \in Failures
  /\ SetStores(After401(Cur, kind))
  /\ href' = HrefAfter(kind, href)
  /\ http' = [http EXCEPT !["verify"] = NoReq]
  /\ verify' = [verify EXCEPT !.pc = "done", !.awaited = FALSE]
  /\ loadPc' = ResumedLoadPc
  /\ UNCHANGED <<now, op, ret, location, urlParams, loads, currentUser,
                 currentCountry, pricingData, statusView, pricingHidden,
                 pricingFailed, ctorPc, inits, statusCount, lastStatusAt,
                 verifyStartAt, nPending, sawError, pricingFetches, lastError,
                 auth, events, req, router>>

\* The 5 s timer of a 'pending' answer calls verifyPaymentStatus(reference)
\* again, which starts with its 2 s delay.
VerifyAgain ==
  /\ location = "subscription"
  /\ verify.pc = "wait"
  /\ now >= verify.due
  /\ verify' = [verify EXCEPT !.pc = "grace", !.due = Due(graceDelay),
                              !.awaited = FALSE]
  /\ UNCHANGED <<now, sessionStorage, localStorage, op, ret, location, href,
                 urlParams, loads, currentUser, currentCountry, pricingData,
                 statusView, pricingHidden, pricingFailed, loadPc, ctorPc,
                 inits, http, statusCount, lastStatusAt, verifyStartAt,
                 nPending, sawError, pricingFetches, lastError, auth, events,
                 req, router>>

\* Country codes the geolocation service reports.
Countries == {"NG", "us"}

\* Pricing quotes the backend returns: their plan keys (none when the data
\* carries no plans).
Quotes == {"QA", "QB", "Q0"}

PlansOf(q) ==
  CASE q = "QA" -> {"monthly", "yearly"}
    [] q = "QB" -> {"Monthly"}
    [] OTHER -> {}

\* detectUserCountry() returns the detected code, or the default when the
\* lookup failed; fetchPricing(countryCode) requests the quote.
LoadCountryReturns(cc) ==
  /\ location = "subscription"
  /\ loadPc = "country"
  /\ cc \in Countries
  /\ currentCountry' = cc
  /\ http' = [http EXCEPT !["load"] = NewReq("pricing", cc, Cur, now, FALSE)]
  /\ pricingFetches' = Append(pricingFetches, cc)
  /\ loadPc' = "pricing"
  /\ UNCHANGED <<now, sessionStorage, localStorage, op, ret, location, href,
                 urlParams, loads, currentUser, pricingData, statusView,
                 pricingHidden, pricingFailed, ctorPc, verify, inits,
                 statusCount, lastStatusAt, verifyStartAt, nPending, sawError,
                 lastError, auth, events, req, router>>

\* A quote arrived, for the detected country or for the default one:
\* displayPricingPlans(), then loadPaymentHistory().
LoadPricingReturns(q) ==
  /\ location = "subscription"
  /\ loadPc \in {"pricing", "pricing2"}
  /\ InFlight("load")
  /\ q \in Quotes
  /\ pricingData' = q
  /\ SetStores(BuildHeaders(Cur, now, TRUE).st)
  /\ http' = [http EXCEPT !["load"] = NewReq("history", Null, Cur, now, TRUE)]
  /\ loadPc' = "history"
  /\ UNCHANGED <<now, op, ret, location, href, urlParams, loads, currentUser,
                 currentCountry, statusView, pricingHidden, pricingFailed,
                 ctorPc, verify, inits, statusCount, lastStatusAt,
                 verifyStartAt, nPending, sawError, pricingFetches, lastError,
                 auth, events, req, router>>

\* The default country is tried after any failed fetch.
FallbackAlways(countryCode) == TRUE

\* fetchPricing's catch: the default country is tried when the failed fetch
\* was for another one.
Fallback(countryCode) == countryCode # DEFAULT_COUNTRY

\* The fetch for the detected country failed.
LoadPricingFails(kind) ==
  /\ location = "subscription"
  /\ loadPc = "pricing"
  /\ InFlight("load")
  /\ kind = "nodata" \/ kind \in Failures
  /\ href' = HrefAfter(kind, href)
  /\ IF Fallback(http["load"].ref)
       THEN /\ currentCountry' = DEFAULT_COUNTRY
            /\ SetStores(After401(Cur, kind))
            /\ http' = [http EXCEPT
                 !["load"] = NewReq("pricing", DEFAULT_COUNTRY, Cur, now, FALSE)]
            /\ pricingFetches' = Append(pricingFetches, DEFAULT_COUNTRY)
            /\ loadPc' = "pricing2"
            /\ UNCHANGED pricingFailed
       ELSE /\ pricingFailed' = TRUE
            /\ SetStores(BuildHeaders(After401(Cur, kind), now, TRUE).st)
            /\ http' = [http EXCEPT
                 !["load"] = NewReq("history", Null, After401(Cur, kind), now, TRUE)]
            /\ loadPc' = "history"
            /\ UNCHANGED <<currentCountry, pricingFetches>>
  /\ UNCHANGED <<now, op, ret, location, urlParams, loads, currentUser,
                 pricingData, statusView, pricingHidden, ctorPc, verify,
                 inits, statusCount, lastStatusAt, verifyStartAt, nPending,
                 sawError, lastError, auth, events, req, router>>

\* The fetch for the default country failed too: the error reaches
\* initializeSubscriptionPage(), which alerts; then loadPaymentHistory().
LoadPricing2Fails(kind) ==
  /\ location = "subscription"
  /\ loadPc = "pricing2"
  /\ InFlight("load")
  /\ kind = "nodata" \/ kind \in Failures
  /\ href' = HrefAfter(kind, href)
  /\ pricingFailed' = TRUE
  /\ SetStores(BuildHeaders(After401(Cur, kind), now, TRUE).st)
  /\ http' = [http EXCEPT
       !["load"] = NewReq("history", Null, After401(Cur, kind), now, TRUE)]
  /\ loadPc' = "history"
  /\ UNCHANGED <<now, op, ret, location, urlParams, loads, currentUser,
                 currentCountry, pricingData, statusView, pricingHidden,
                 ctorPc, verify, inits, statusCount, lastStatusAt,
                 verifyStartAt, nPending, sawError, pricingFetches, lastError,
                 auth, events, req, router>>

\* loadPaymentHistory() ends, and with it the handler.
LoadHistoryReturns(kind) ==
  /\ location = "subscription"
  /\ loadPc = "history"
  /\ InFlight("load")
  /\ kind \in Answers \/ kind \in Failures
  /\ SetStores(After401(Cur, kind))
  /\ href' = HrefAfter(kind, href)
  /\ http' = [http EXCEPT !["load"] = NoReq]
  /\ loadPc' = "done"
  /\ UNCHANGED <<now, op, ret, location, urlParams, loads, currentUser,
                 currentCountry, pricingData, statusView, pricingHidden,
                 pricingFailed, ctorPc, verify, inits, statusCount,
                 lastStatusAt, verifyStartAt, nPending, sawError,
                 pricingFetches, lastError, auth, events, req, router>>

----------------------------------------------------------------------------
(* js/subscription.js: initiatePayment(plan, enableAutoRenew = true) *)

\* The plan and enableAutoRenew arguments callers pass ("undefined": the
\* argument is left out).
PlanArgs == {"Monthly", "weekly"}
AutoArgs == {"false", "undefined"}

\* plan.toLowerCase(), currentCountry.toUpperCase()
LowerCase(x) == IF x = "Monthly" THEN "monthly" ELSE x
UpperCase(x) == IF x = "us" THEN "US" ELSE x

\* The default parameter value, then Boolean(enableAutoRenew).
ToBoolean(x) == x \in {"true", "undefined"}

\* Only the quote is required, not the plan in it.
NoSuchPlanQuoteOnly(q, plan) == q = Null

\* !pricingData || !pricingData.plans || !pricingData.plans[plan]
NoSuchPlan(q, plan) == q = Null \/ plan \notin PlansOf(q)

\* The arguments are sent as they came.
RequestBodyRaw(plan, cc, enableAutoRenew) ==
  [plan |-> plan, country_code |-> cc,
   enable_auto_renew |-> ToBoolean(enableAutoRenew)]

\* The body of POST /payments/initiate.
RequestBody(plan, cc, enableAutoRenew) ==
  [plan |-> LowerCase(plan), country_code |-> UpperCase(cc),
   enable_auto_renew |-> ToBoolean(enableAutoRenew)]

\* What a 2xx answer of POST /payments/initiate carries.
PayData(authUrl, reference) == [authUrl |-> authUrl, reference |-> reference]

PayDatas ==
  {PayData("payUrl", "r1"), PayData("payUrl", "r2"), PayData(Null, "r1"),
   PayData("payUrl", Null), PayData("", "")}

loginDelay == 1500
authErrorDelay == 2000
redirectDelay == 1000

\* The call is past its last use of enableAutoRenew.
Past(i) == [i EXCEPT !.enableAutoRenew = Null]

\* The call has returned, and how.
Ended(i, result) == [Past(i) EXCEPT !.pc = "done", !.due = 0, !.result = result]

\* error.message includes '401', '403' or 'Unauthorized'
NamesAuth(message) == message = "eauth"

\* The call ends in its catch block with an error alert, and with a 2 s timer
\* to the login page when the message names an authorization failure. A
\* request's error is kept as "request" whatever the failure was.
Caught(i, message) ==
  IF NamesAuth(message)
    THEN [Past(i) EXCEPT !.pc = "toLogin", !.due = Due(authErrorDelay),
                         !.result = "sessionExpired"]
    ELSE Ended(i, IF message \in Failures \cup {"nodata"}
                    THEN "request" ELSE message)

\* post(INITIATE, requestBody, true)
InitiateReq(st, body) ==
  [NewReq("initiate", Null, st, now, TRUE) EXCEPT !.body = body]

\* The call from the pricing check on: rejected when the quote lacks the
\* plan, given up when the user declines confirm(), else the POST is sent.
\* The result is the call's record, its request and the storages.
Proceed(i, st, confirmed) ==
  IF NoSuchPlan(pricingData, i.plan)
    THEN [init |-> Caught(i, "noPricing"), req |-> NoReq, st |-> st]
  ELSE IF ~confirmed
    THEN [init |-> Ended(i, "cancelled"), req |-> NoReq, st |-> st]
  ELSE [init |-> [i EXCEPT !.pc = "post"],
        req |-> InitiateReq(st, RequestBody(i.plan, currentCountry,
                                            i.enableAutoRenew)),
        st |-> BuildHeaders(st, now, TRUE).st]

\* initiatePayment(plan, enableAutoRenew) is called, once the page has run
\* initializeSubscriptionPage().
InitiatePayment(p, plan, enableAutoRenew, confirmed) ==
  /\ location = "subscription"
  /\ loadPc \in {"history", "done"}
  /\ inits[p].pc \in {"idle", "done"}
  /\ p = "init2" => inits["init1"].pc # "idle"
  /\ LET a == IsAuthenticated(Cur, now)
         i == [NoInit EXCEPT !.plan = plan, !.enableAutoRenew = enableAutoRenew]
         r == Proceed(i, a.st, confirmed)
     IN  IF ~a.ret
           THEN /\ inits' = [inits EXCEPT ![p] =
                      [Past(i) EXCEPT !.pc = "toLogin", !.due = Due(loginDelay),
                                      !.result = "unauthenticated"]]
                /\ SetStores(a.st)
                /\ UNCHANGED http
         ELSE IF currentUser = Null
           THEN /\ inits' = [inits EXCEPT ![p] = [i EXCEPT !.pc = "user"]]
                /\ SetStores(a.st)
                /\ http' = [http EXCEPT ![p] = UserReq(a.st, now)]
         ELSE /\ inits' = [inits EXCEPT ![p] = r.init]
              /\ SetStores(r.st)
              /\ http' = [http EXCEPT ![p] = r.req]
  /\ UNCHANGED <<now, op, ret, location, href, urlParams, loads, currentUser,
                 currentCountry, pricingData, statusView, pricingHidden,
                 pricingFailed, loadPc, ctorPc, verify, statusCount,
                 lastStatusAt, verifyStartAt, nPending, sawError,
                 pricingFetches, lastError, auth, events, req, router>>

\* The call's loadCurrentUser() returns; without a user the call ends in an
\* error, with one it proceeds.
InitUserReturns(p, kind, confirmed) ==
  /\ location = "subscription"
  /\ inits[p].pc = "user"
  /\ InFlight(p)
  /\ kind \in Answers \/ kind \in Failures
  /\ LET user == UserAfter(kind, currentUser)
         st == StoresAfterUser(kind, Cur)
         r == Proceed(inits[p], st, confirmed)
     IN  /\ currentUser' = user
         /\ href' = HrefAfter(kind, href)
         /\ IF user = Null
              THEN /\ inits' = [inits EXCEPT ![p] = Caught(inits[p], "noUser")]
                   /\ SetStores(st)
                   /\ http' = [http EXCEPT ![p] = NoReq]
              ELSE /\ inits' = [inits EXCEPT ![p] = r.init]
                   /\ SetStores(r.st)
                   /\ http' = [http EXCEPT ![p] = r.req]
  /\ UNCHANGED <<now, op, ret, location, urlParams, loads, currentCountry,
                 pricingData, statusView, pricingHidden, pricingFailed,
                 loadPc, ctorPc, verify, statusCount, lastStatusAt,
                 verifyStartAt, nPending, sawError, pricingFetches, lastError,
                 auth, events, req, router>>

\* sessionStorage.setItem() of the two pending_payment keys.
StorePending(st, reference, plan) ==
  Stores([st.session EXCEPT !.pending_payment_reference = reference,
                            !.pending_payment_plan = plan],
         st.local)

\* Only the authorization URL is required.
MissingUrlOnly(data) == IF Falsy(data.authUrl) THEN "noUrl" ELSE Null

\* The error a 2xx answer of POST /payments/initiate ends in, Null if none.
Missing(data) ==
  IF Falsy(data.authUrl) THEN "noUrl"
  ELSE IF Falsy(data.reference) THEN "noReference"
  ELSE Null

\* POST /payments/initiate returns data: PendingPayment is stored and the
\* navigation to the authorization URL set for 1 s later, or the call ends in
\* an error.
InitPostReturns(p, data) ==
  /\ location = "subscription"
  /\ inits[p].pc = "post"
  /\ InFlight(p)
  /\ data \in PayDatas
  /\ http' = [http EXCEPT ![p] = NoReq]
  /\ IF Missing(data) = Null
       THEN /\ SetStores(StorePending(Cur, data.reference, inits[p].plan))
            /\ inits' = [inits EXCEPT ![p] =
                 [Past(inits[p]) EXCEPT !.pc = "redirect",
                                  !.due = Due(redirectDelay), !.data = data,
                                  !.result = "redirecting"]]
       ELSE /\ inits' = [inits EXCEPT ![p] =
                 Caught([inits[p] EXCEPT !.data = data], Missing(data))]
            /\ UNCHANGED <<sessionStorage, localStorage>>
  /\ UNCHANGED <<now, op, ret, location, href, urlParams, loads, currentUser,
                 currentCountry, pricingData, statusView, pricingHidden,
                 pricingFailed, loadPc, ctorPc, verify, statusCount,
                 lastStatusAt, verifyStartAt, nPending, sawError,
                 pricingFetches, lastError, auth, events, req, router>>

\* POST /payments/initiate returns no data, or throws.
InitPostFails(p, kind) ==
  /\ location = "subscription"
  /\ inits[p].pc = "post"
  /\ InFlight(p)
  /\ kind = "nodata" \/ kind \in Failures
  /\ http' = [http EXCEPT ![p] = NoReq]
  /\ SetStores(After401(Cur, kind))
  /\ href' = HrefAfter(kind, href)
  /\ inits' = [inits EXCEPT ![p] = Caught(inits[p], kind)]
  /\ UNCHANGED <<now, op, ret, location, urlParams, loads, currentUser,
                 currentCountry, pricingData, statusView, pricingHidden,
                 pricingFailed, loadPc, ctorPc, verify, statusCount,
                 lastStatusAt, verifyStartAt, nPending, sawError,
                 pricingFetches, lastError, auth, events, req, router>>

\* A timer of the call fires: location.href becomes the authorization URL
\* (1 s after the response) or the login page.
InitTimer(p) ==
  /\ location = "subscription"
  /\ inits[p].pc \in {"redirect", "toLogin"}
  /\ now >= inits[p].due
  /\ href' = IF inits[p].pc = "redirect"
              THEN inits[p].data.authUrl ELSE "login"
  /\ inits' = [inits EXCEPT ![p] = Ended(inits[p], inits[p].result)]
  /\ UNCHANGED <<now, sessionStorage, localStorage, op, ret, location,
                 urlParams, loads, currentUser, currentCountry, pricingData,
                 statusView, pricingHidden, pricingFailed, loadPc, ctorPc,
                 verify, http, statusCount, lastStatusAt, verifyStartAt,
                 nPending, sawError, pricingFetches, lastError, auth, events,
                 req, router>>

\* A navigation requested through location.href takes place: the page and
\* everything its scripts had pending are gone.
Navigate ==
  /\ location = "subscription"
  /\ href # Null
  /\ location' = href
  /\ href' = Null
  /\ ClosePage
  /\ UNCHANGED <<now, sessionStorage, localStorage, op, ret, loads,
                 lastError>>

\* Time passes.
Tick(d, limit) ==
  /\ now + d <= limit
  /\ now' = now + d
  /\ UNCHANGED <<sessionStorage, localStorage, op, ret, location, href,
                 urlParams, loads, currentUser, currentCountry, pricingData,
                 statusView, pricingHidden, pricingFailed, loadPc, ctorPc,
                 verify, inits, http, statusCount, lastStatusAt,
                 verifyStartAt, nPending, sawError, pricingFetches, lastError,
                 auth, events, req, router>>

----------------------------------------------------------------------------
(* The token store driven call by call *)

TokInit ==
  /\ now = 0
  /\ sessionStorage = EmptySession
  /\ localStorage = EmptyLocal
  /\ op = [name |-> "init"]
  /\ ret = Null
  /\ location = "blank"
  /\ href = Null
  /\ loads = 0
  /\ lastError = NoError
  /\ NoPage

ExpiresInValues == {0, 1, 2}

storeTokenCall(token, expiresIn, rememberMe) ==
  /\ SetStores(StoreToken(Cur, token, expiresIn, rememberMe, now))
  /\ op' = [name |-> "storeToken", token |-> token,
            expiresIn |-> expiresIn, rememberMe |-> rememberMe]
  /\ ret' = "true"
  /\ UNCHANGED now
  /\ UNCHANGED pageVars
  /\ UNCHANGED lastError
  /\ UNCHANGED authVars
  /\ UNCHANGED netVars

getTokenCall ==
  /\ SetStores(GetToken(Cur, now).st)
  /\ op' = [name |-> "getToken", at |-> now,
            token |-> FoundEntry(Cur).token, expiry |-> FoundEntry(Cur).expiry]
  /\ ret' = GetToken(Cur, now).ret
  /\ UNCHANGED now
  /\ UNCHANGED pageVars
  /\ UNCHANGED lastError
  /\ UNCHANGED authVars
  /\ UNCHANGED netVars

clearTokenCall ==
  /\ SetStores(ClearToken(Cur))
  /\ op' = [name |-> "clearToken"]
  /\ ret' = "true"
  /\ UNCHANGED now
  /\ UNCHANGED pageVars
  /\ UNCHANGED lastError
  /\ UNCHANGED authVars
  /\ UNCHANGED netVars

isAuthenticatedCall ==
  /\ SetStores(IsAuthenticated(Cur, now).st)
  /\ op' = [name |-> "isAuthenticated", at |-> now,
            token |-> FoundEntry(Cur).token, expiry |-> FoundEntry(Cur).expiry]
  /\ ret' = IF IsAuthenticated(Cur, now).ret THEN "true" ELSE "false"
  /\ UNCHANGED now
  /\ UNCHANGED pageVars
  /\ UNCHANGED lastError
  /\ UNCHANGED authVars
  /\ UNCHANGED netVars

TokSteps == {1000}

\* Time passes between two calls.
TokTick(d) ==
  /\ now + d <= MaxTokTime
  /\ now' = now + d
  /\ UNCHANGED <<sessionStorage, localStorage, op, ret>>
  /\ UNCHANGED pageVars
  /\ UNCHANGED lastError
  /\ UNCHANGED authVars
  /\ UNCHANGED netVars

TokNext ==
  \/ \E token \in Tokens, expiresIn \in ExpiresInValues, rememberMe \in BOOLEAN :
       storeTokenCall(token, expiresIn, rememberMe)
  \/ getTokenCall
  \/ clearTokenCall
  \/ isAuthenticatedCall
  \/ \E d \in TokSteps : TokTick(d)

SpecTok == TokInit /\ [][TokNext]_vars

----------------------------------------------------------------------------
(* The token store around the refresh threshold *)

MaxNearTime == 3000

\* Lifetimes in seconds: two that run out within the run, two that come
\* within a millisecond of the threshold.
NearExpiresIn == {1, 2, 301, 302}

NearSteps == {999, 1001}

needsRefreshCall ==
  /\ op' = [name |-> "needsRefresh", at |-> now,
            token |-> FoundEntry(Cur).token, expiry |-> RefreshExpiry(Cur)]
  /\ ret' = IF NeedsRefresh(Cur, now) THEN "true" ELSE "false"
  /\ UNCHANGED <<now, sessionStorage, localStorage>>
  /\ UNCHANGED pageVars
  /\ UNCHANGED lastError
  /\ UNCHANGED authVars
  /\ UNCHANGED netVars

NearTick(d) ==
  /\ now + d <= MaxNearTime
  /\ now' = now + d
  /\ UNCHANGED <<sessionStorage, localStorage, op, ret>>
  /\ UNCHANGED pageVars
  /\ UNCHANGED lastError
  /\ UNCHANGED authVars
  /\ UNCHANGED netVars

NearNext ==
  \/ \E expiresIn \in NearExpiresIn, rememberMe \in BOOLEAN :
       storeTokenCall("T1", expiresIn, rememberMe)
  \/ needsRefreshCall
  \/ getTokenCall
  \/ clearTokenCall
  \/ \E d \in NearSteps : NearTick(d)

SpecNear == TokInit /\ [][NearNext]_vars

----------------------------------------------------------------------------
(* The subscription page in a tab whose user has logged in *)

\* The session tier as an earlier login left it: a token that outlives the
\* run, one that expires during it, or none.
FarExpiry == 3600000
NearExpiry == 12000

SessionInits ==
  {[EmptySession EXCEPT !.token = "T1", !.expiry = FarExpiry],
   [EmptySession EXCEPT !.token = "T1", !.expiry = NearExpiry],
   EmptySession}

\* PendingPayment as an earlier initiation left it, or none.
WithPending(ss, reference, plan) ==
  [ss EXCEPT !.pending_payment_reference = reference,
             !.pending_payment_plan = plan]

PageInit ==
  /\ now = 0
  /\ \E ss \in SessionInits :
       sessionStorage \in {ss, WithPending(ss, "r1", "monthly")}
  /\ localStorage = EmptyLocal
  /\ op = [name |-> "init"]
  /\ ret = Null
  /\ location = "blank"
  /\ href = Null
  /\ loads = 0
  /\ lastError = NoError
  /\ NoPage

PageSteps == {8000}

VerifyNext ==
  \/ \E url \in Urls : PageLoad(url)
  \/ DOMContentLoaded
  \/ \E kind \in Answers \cup Failures : CtorUserReturns(kind)
  \/ \E kind \in Answers \cup Failures : LoadUserReturns(kind)
  \/ \E kind \in Answers \cup Failures : LoadSubReturns(kind)
  \/ VerifyRequest
  \/ \E status \in Statuses : VerifyReturns(status)
  \/ \E kind \in {"nodata"} \cup Failures : VerifyFails(kind)
  \/ \E kind \in Answers \cup Failures : VerifySubReturns(kind)
  \/ VerifyAgain
  \/ \E cc \in Countries : LoadCountryReturns(cc)
  \/ \E q \in Quotes : LoadPricingReturns(q)
  \/ \E kind \in {"nodata"} \cup Failures : LoadPricingFails(kind)
  \/ \E kind \in {"nodata"} \cup Failures : LoadPricing2Fails(kind)
  \/ \E kind \in Answers \cup Failures : LoadHistoryReturns(kind)
  \/ Navigate
  \/ \E d \in PageSteps : Tick(d, MaxTime)

SpecVerify == PageInit /\ [][VerifyNext]_vars

----------------------------------------------------------------------------
(* One visit to the subscription page by a logged-in user who picks plans *)

LoggedIn == [EmptySession EXCEPT !.token = "T1", !.expiry = FarExpiry]

\* The page has just been loaded with query string url, the session tier
\* being ss: the scripts are evaluated, DOMContentLoaded is to come.
Loaded(ss, url) ==
  /\ now = 0
  /\ sessionStorage = ss
  /\ localStorage = EmptyLocal
  /\ op = [name |-> "init"]
  /\ ret = Null
  /\ location = "subscription"
  /\ href = Null
  /\ urlParams = url
  /\ loads = 1
  /\ currentUser = Null
  /\ currentCountry = Null
  /\ pricingData = Null
  /\ statusView = "hidden"
  /\ pricingHidden = FALSE
  /\ pricingFailed = FALSE
  /\ loadPc = "start"
  /\ ctorPc = "user"
  /\ verify = IdleVerify
  /\ inits = [p \in InitSlots |-> NoInit]
  /\ http = [p \in Procs |->
               IF p = "ctor" THEN UserReq(Stores(ss, EmptyLocal), 0) ELSE NoReq]
  /\ statusCount = 0
  /\ lastStatusAt = -1
  /\ verifyStartAt = -1
  /\ nPending = 0
  /\ sawError = FALSE
  /\ pricingFetches = <<>>
  /\ lastError = NoError
  /\ auth = IdleAuth
  /\ events = <<>>
  /\ req = IdleReq
  /\ router = NoRouter

\* Without query string and without a payment outstanding.
PayInit == Loaded(LoggedIn, Url(Null, Null, Null))

PayNext ==
  \/ DOMContentLoaded
  \/ \E kind \in Answers \cup Failures : CtorUserReturns(kind)
  \/ \E kind \in Answers \cup Failures : LoadUserReturns(kind)
  \/ \E kind \in Answers \cup Failures : LoadSubReturns(kind)
  \/ \E cc \in Countries : LoadCountryReturns(cc)
  \/ \E q \in Quotes : LoadPricingReturns(q)
  \/ \E kind \in {"nodata"} \cup Failures : LoadPricingFails(kind)
  \/ \E kind \in {"nodata"} \cup Failures : LoadPricing2Fails(kind)
  \/ \E kind \in Answers \cup Failures : LoadHistoryReturns(kind)
  \/ \E p \in InitSlots, plan \in PlanArgs, enableAutoRenew \in AutoArgs,
        confirmed \in BOOLEAN :
       InitiatePayment(p, plan, enableAutoRenew, confirmed)
  \/ \E p \in InitSlots, kind \in Answers \cup Failures, confirmed \in BOOLEAN :
       InitUserReturns(p, kind, confirmed)
  \/ \E p \in InitSlots, data \in PayDatas : InitPostReturns(p, data)
  \/ \E p \in InitSlots, kind \in {"nodata"} \cup Failures : InitPostFails(p, kind)
  \/ \E p \in InitSlots : InitTimer(p)
  \/ Navigate
  \/ \E d \in PageSteps : Tick(d, MaxPayTime)

SpecPay == PayInit /\ [][PayNext]_vars

----------------------------------------------------------------------------
(* The user returns from the payment provider: one visit, second by second *)

\* PendingPayment is outstanding; the provider's redirect carries the
\* reference or, the user coming back on their own, nothing.
PollInit ==
  \E url \in {Url(Null, Null, Null), Url("r1", Null, Null)} :
    Loaded(WithPending(LoggedIn, "r1", "monthly"), url)

PollSteps == {1000}

PollNext ==
  \/ DOMContentLoaded
  \/ \E kind \in Answers \cup Failures : CtorUserReturns(kind)
  \/ \E kind \in Answers \cup Failures : LoadUserReturns(kind)
  \/ \E kind \in Answers \cup Failures : LoadSubReturns(kind)
  \/ VerifyRequest
  \/ \E status \in Statuses : VerifyReturns(status)
  \/ \E kind \in {"nodata"} \cup Failures : VerifyFails(kind)
  \/ \E kind \in Answers \cup Failures : VerifySubReturns(kind)
  \/ VerifyAgain
  \/ Navigate
  \/ \E d \in PollSteps : Tick(d, MaxPollTime)

SpecPoll == PollInit /\ [][PollNext]_vars

----------------------------------------------------------------------------
(* The same visit with time passing only up to the timer the verification  *)
(* waits for. Timers fire, and makeRequest() settles every request: fetch() *)
(* is aborted after CONFIG.API_TIMEOUT and retried three times at most.     *)

\* A second passes while the delay or the timer of the verification runs.
PollTimerTick(d) ==
  /\ location = "subscription"
  /\ verify.pc \in {"grace", "wait"}
  /\ now + d <= verify.due
  /\ now' = now + d
  /\ UNCHANGED <<sessionStorage, localStorage, op, ret>>
  /\ UNCHANGED pageVars
  /\ UNCHANGED lastError
  /\ UNCHANGED authVars
  /\ UNCHANGED netVars

\* The status request is answered, or fails.
VerifyAnswered ==
  \/ \E status \in Statuses : VerifyReturns(status)
  \/ \E kind \in {"nodata"} \cup Failures : VerifyFails(kind)

PollLiveNext ==
  \/ DOMContentLoaded
  \/ \E kind \in Answers \cup Failures : CtorUserReturns(kind)
  \/ \E kind \in Answers \cup Failures : LoadUserReturns(kind)
  \/ \E kind \in Answers \cup Failures : LoadSubReturns(kind)
  \/ VerifyRequest
  \/ VerifyAnswered
  \/ \E kind \in Answers \cup Failures : VerifySubReturns(kind)
  \/ VerifyAgain
  \/ Navigate
  \/ \E d \in PollSteps : PollTimerTick(d)

SpecPollLive ==
  /\ PollInit
  /\ [][PollLiveNext]_vars
  /\ WF_vars(\E d \in PollSteps : PollTimerTick(d))
  /\ WF_vars(VerifyAgain)
  /\ WF_vars(VerifyRequest)
  /\ WF_vars(VerifyAnswered)

----------------------------------------------------------------------------
(* A payment from the choice of the plan to its verification: the visit in  *)
(* which the user picks a plan, and the loads that follow it. The requests  *)
(* other than the two of the payment itself succeed.                        *)

FlowUrls == {Url(Null, Null, Null), Url("r2", Null, Null)}

FlowNext ==
  \/ \E url \in FlowUrls : PageLoad(url)
  \/ DOMContentLoaded
  \/ CtorUserReturns("ok")
  \/ LoadUserReturns("ok")
  \/ LoadSubReturns("ok")
  \/ VerifyRequest
  \/ \E status \in Statuses : VerifyReturns(status)
  \/ \E kind \in {"neterr", "e401"} : VerifyFails(kind)
  \/ VerifySubReturns("ok")
  \/ VerifyAgain
  \/ LoadCountryReturns(DEFAULT_COUNTRY)
  \/ LoadPricingReturns("QA")
  \/ LoadHistoryReturns("ok")
  \/ \E p \in InitSlots : InitiatePayment(p, "monthly", "undefined", TRUE)
  \/ \E p \in InitSlots, reference \in Refs :
       InitPostReturns(p, PayData("payUrl", reference))
  \/ \E p \in InitSlots : InitPostFails(p, "neterr")
  \/ \E p \in InitSlots : InitTimer(p)
  \/ Navigate
  \/ \E d \in PageSteps : Tick(d, MaxTime)

SpecFlow == PayInit /\ [][FlowNext]_vars

----------------------------------------------------------------------------
(* authService called on a page: logins, registrations, refreshes, logout *)

MaxAuthTime == 3000

AuthSteps == {1000}

Emails ==
  {<<>>,
   <<"a", "@", "b", ".", "c">>,
   <<"a", "b", ".", "c">>,
   <<"a", "@", "b", "c">>,
   <<"a", "@", ".", "c">>,
   <<"a", " ", "@", "b", ".", "c">>}

Passwords ==
  {<<>>,
   <<"a", "b", "c">>,
   <<"A", "b", "c", "d", "e", "f", "g", "1">>,
   <<"a", "b", "c", "d", "e", "f", "g", "1">>,
   <<"A", "B", "C", "D", "E", "F", "G", "1">>,
   <<"A", "b", "c", "d", "e", "f", "g", "h">>,
   <<"A", "b", "c", "d", "e", "f", "1">>}

\* The tokens the server issues, one per call.
IssuedTokens == <<"T1", "T2", "T3", "T4", "T5">>

\* The 2xx answers of the auth endpoints to the n-th call: a token with a
\* life time (missing, 0 or two seconds) and a user or none, no token, an
\* empty token, or the JSON value null.
Issued(n) == IF n \in DOMAIN IssuedTokens THEN IssuedTokens[n] ELSE "T0"

AuthDatas(n) ==
  {AuthData("object", Issued(n), NoExpiresIn, "U1"),
   AuthData("object", Issued(n), 0, Null),
   AuthData("object", Issued(n), 2, "U1"),
   AuthData("object", Null, 2, "U1"),
   AuthData("object", "", NoExpiresIn, Null),
   NullData}

AuthInit ==
  /\ now = 0
  /\ sessionStorage = EmptySession
  /\ localStorage = EmptyLocal
  /\ op = [name |-> "init"]
  /\ ret = Null
  /\ location \in AuthPages
  /\ href = Null
  /\ loads = 0
  /\ lastError = NoError
  /\ NoPage

AuthTick(d) ==
  /\ now + d <= MaxAuthTime
  /\ now' = now + d
  /\ UNCHANGED <<sessionStorage, localStorage, op, ret>>
  /\ UNCHANGED pageVars
  /\ UNCHANGED lastError
  /\ UNCHANGED authVars
  /\ UNCHANGED netVars

GoodEmail == <<"a", "@", "b", ".", "c">>
GoodPassword == <<"A", "b", "c", "d", "e", "f", "g", "1">>

AuthNext ==
  \/ \E rememberMe \in BOOLEAN : Login(GoodEmail, GoodPassword, rememberMe)
  \/ \E data \in AuthDatas(auth.n) : LoginReturns(data)
  \/ \E kind \in AuthFailures : LoginFails(kind)
  \/ Logout
  \/ \E kind \in {"ok"} \cup AuthFailures : LogoutReturns(kind)
  \/ RefreshToken
  \/ \E data \in AuthDatas(auth.n) : RefreshReturns(data)
  \/ \E kind \in AuthFailures : RefreshFails(kind)
  \/ \E d \in AuthSteps : AuthTick(d)

SpecAuth == AuthInit /\ [][AuthNext]_vars

\* makeRequest() settles every request: fetch() is aborted after
\* CONFIG.API_TIMEOUT and is retried three times at most.
SpecLogout ==
  /\ AuthInit
  /\ [][AuthNext]_vars
  /\ WF_vars(\E kind \in {"ok"} \cup AuthFailures : LogoutReturns(kind))

----------------------------------------------------------------------------
(* The cached user and the session it belongs to *)

SessionNext ==
  \/ AuthNext
  \/ LoadCurrentUser
  \/ \E kind \in {"ok", "nodata"} : LoadCurrentUserReturns(kind)
  \/ \E kind \in AuthFailures : LoadCurrentUserFails(kind)

SpecSession == AuthInit /\ [][SessionNext]_vars

----------------------------------------------------------------------------
(* One request through makeRequest() on a public and on a protected page, *)
(* in a tab that holds a token in each tier                                 *)

ReqInit ==
  /\ now = 0
  /\ sessionStorage = StoreToken(Stores(EmptySession, EmptyLocal), "T1", 3600, FALSE, 0).session
  /\ localStorage = StoreToken(Stores(EmptySession, EmptyLocal), "T2", 3600, TRUE, 0).local
  /\ op = [name |-> "init"]
  /\ ret = Null
  /\ location \in AuthPages
  /\ href = Null
  /\ loads = 0
  /\ lastError = NoError
  /\ NoPage

\* The clock moves by half the abort timer while a fetch is in flight and
\* by a second during a delay.
FetchSteps == {15000}
DelaySteps == {1000}

ReqStatuses == {200, 401, 404, 500}

ReqTick(d) ==
  /\ now + d <= MaxReqTime
  /\ \/ req.pc = "fetch" /\ d \in FetchSteps
        /\ now + d <= req.startedAt + API_TIMEOUT
     \/ req.pc = "delay" /\ d \in DelaySteps /\ now + d <= req.wakeAt
  /\ now' = now + d
  /\ UNCHANGED <<sessionStorage, localStorage, op, ret>>
  /\ UNCHANGED pageVars
  /\ UNCHANGED lastError
  /\ UNCHANGED authVars
  /\ UNCHANGED netVars

ReqNext ==
  \/ req.n < MaxReqs /\ Get(TRUE)
  \/ \E status \in ReqStatuses : Responds(status)
  \/ FetchRejects
  \/ TimesOut
  \/ DelayEnds
  \/ \E d \in FetchSteps \cup DelaySteps : ReqTick(d)

SpecReq == ReqInit /\ [][ReqNext]_vars

----------------------------------------------------------------------------
(* The entry points of the api service called with data that holds markup *)

MaxSends == 2

Markup == <<"<", "b", ">">>

Datas ==
  {Obj(<<Entry(<<"n">>, Str(<<"a", "b">>))>>),
   Obj(<<Entry(<<"n">>, Str(Markup)), Entry(<<"m">>, JsNull)>>),
   Obj(<<Entry(<<"p">>, Obj(<<Entry(<<"q">>, Str(<<"a", "&", "\"">>))>>))>>),
   Obj(<<Entry(<<"l">>, Arr(<<Str(Markup), Str(<<"c">>)>>))>>)}

\* The forms patchForm() and upload() are given: flat, as the pages build
\* them.
Forms == {data \in Datas : \A i \in DOMAIN data.v : data.v[i].v.t \in {"str", "null"}}

BodyNext ==
  \/ /\ req.n < MaxSends
     /\ \/ Get(TRUE)
        \/ Delete(TRUE)
        \/ \E data \in Datas : Post(data, TRUE)
        \/ \E data \in Datas : Put(data, TRUE)
        \/ \E data \in Datas : Patch(data, TRUE)
        \/ \E data \in Forms : PatchForm(data, TRUE)
        \/ \E data \in Forms : Upload(data, TRUE)
  \/ Responds(200)

SpecBody == ReqInit /\ [][BodyNext]_vars

----------------------------------------------------------------------------
(* The route guard: pages opened by the user and by the guard's redirects, *)
(* in a tab whose tiers hold tokens that expire after two seconds           *)

GuardExpiresIn == 2

GuardStores ==
  {Stores(EmptySession, EmptyLocal),
   StoreToken(Stores(EmptySession, EmptyLocal), "T1", GuardExpiresIn, FALSE, 0),
   StoreToken(Stores(EmptySession, EmptyLocal), "T2", GuardExpiresIn, TRUE, 0)}

MaxGuardTime == 3000

GuardInit ==
  /\ now = 0
  /\ \E st \in GuardStores :
       /\ sessionStorage = st.session
       /\ localStorage = st.local
  /\ op = [name |-> "init"]
  /\ ret = Null
  /\ location = "blank"
  /\ href = Null
  /\ loads = 0
  /\ lastError = NoError
  /\ NoPage

GuardSearches == {Url(Null, Null, Null), Url("r1", Null, Null)}

\* The browser loads a page: the one the user asks for, or the one a
\* navigation of the page before asked for. The scripts of the page before
\* are gone, those of the page are evaluated: new RouterService().
OpenPage(page, search) ==
  /\ loads < MaxLoads
  /\ loads' = loads + 1
  /\ location' = page
  /\ SetStores(RouteAccess(page, search, Cur, now).st)
  /\ href' = IF RouteAccess(page, search, Cur, now).to = "none"
               THEN Null
               ELSE RouteAccess(page, search, Cur, now).to
  /\ urlParams' = search
  /\ currentUser' = Null
  /\ currentCountry' = Null
  /\ pricingData' = Null
  /\ statusView' = "hidden"
  /\ pricingHidden' = FALSE
  /\ pricingFailed' = FALSE
  /\ loadPc' = "none"
  /\ ctorPc' = "none"
  /\ verify' = IdleVerify
  /\ inits' = [p \in InitSlots |-> NoInit]
  /\ http' = [p \in Procs |-> NoReq]
  /\ statusCount' = 0
  /\ lastStatusAt' = -1
  /\ verifyStartAt' = -1
  /\ nPending' = 0
  /\ sawError' = FALSE
  /\ pricingFetches' = <<>>
  /\ auth' = IdleAuth
  /\ events' = <<>>
  /\ req' = IdleReq
  /\ router' = Constructed(page, search, Cur, now)
  /\ UNCHANGED <<now, op, ret, lastError>>

\* The user opens a page.
UserOpens(page, search) ==
  /\ href = Null
  /\ OpenPage(page, search)

\* The navigation a script asked for takes place.
FollowsHref ==
  /\ href # Null
  /\ OpenPage(href, Url(Null, Null, Null))

GuardTick(d) ==
  /\ now + d <= MaxGuardTime
  /\ now' = now + d
  /\ UNCHANGED <<sessionStorage, localStorage, op, ret>>
  /\ UNCHANGED pageVars
  /\ UNCHANGED lastError
  /\ UNCHANGED authVars
  /\ UNCHANGED netVars

GuardNext ==
  \/ \E page \in Pages, search \in GuardSearches : UserOpens(page, search)
  \/ FollowsHref
  \/ CheckRouteAccess
  \/ GetRedirectPath
  \/ GuardTick(1000)

SpecGuard == GuardInit /\ [][GuardNext]_vars

----------------------------------------------------------------------------
(* The refresh timer on the login and the profile page: logins whose       *)
(* tokens live five and a half minutes or an hour, minute by minute         *)

MaxTimerTime == 180000

TimerSteps == {60000}

\* The 2xx answers to the n-th call: a token that needs a refresh at the
\* next check, a token that needs none, no token.
TimerDatas(n) ==
  {AuthData("object", Issued(n), 330, "U1"),
   AuthData("object", Issued(n), 3600, "U1"),
   AuthData("object", Null, 330, "U1")}

TimerInit ==
  /\ now = 0
  /\ sessionStorage = EmptySession
  /\ localStorage = EmptyLocal
  /\ op = [name |-> "init"]
  /\ ret = Null
  /\ location = "blank"
  /\ href = Null
  /\ loads = 0
  /\ lastError = NoError
  /\ NoPage

\* Time passes, up to the next check of an interval. A call of authService
\* settles within the minute.
TimerTick(d) ==
  /\ now + d <= MaxTimerTime
  /\ auth.pc = "idle"
  /\ \A x \in router.timers : now + d <= x.due
  /\ now' = now + d
  /\ UNCHANGED <<sessionStorage, localStorage, op, ret>>
  /\ UNCHANGED pageVars
  /\ UNCHANGED lastError
  /\ UNCHANGED authVars
  /\ UNCHANGED netVars

TimerNext ==
  \/ \E page \in AuthPages : UserOpens(page, Url(Null, Null, Null))
  \/ FollowsHref
  \/ \E rememberMe \in BOOLEAN : Login(GoodEmail, GoodPassword, rememberMe)
  \/ \E data \in TimerDatas(auth.n) : LoginReturns(data)
  \/ Logout
  \/ \E kind \in {"ok", "e5xx"} : LogoutReturns(kind)
  \/ \E x \in router.timers : TimerFires(x)
  \/ \E data \in TimerDatas(auth.n) : TimerRefreshReturns(data)
  \/ \E kind \in {"e401", "e5xx"} : TimerRefreshFails(kind)
  \/ \E d \in TimerSteps : TimerTick(d)

SpecTimer == TimerInit /\ [][TimerNext]_vars

----------------------------------------------------------------------------
(* The refresh interval and the logout button on pages opened with a token *)
(* of a minute and a half, while requests take up to two minutes           *)

MaxRaceTime == 150000

RaceSteps == {30000}

RaceExpiresIn == 90

RaceStores ==
  {StoreToken(Stores(EmptySession, EmptyLocal), "T1", RaceExpiresIn, FALSE, 0),
   StoreToken(Stores(EmptySession, EmptyLocal), "T2", RaceExpiresIn, TRUE, 0)}

\* The 2xx answers to a refresh request: a token, or none.
RaceDatas ==
  {AuthData("object", "T3", 330, "U1"), AuthData("object", Null, 330, "U1")}

RaceInit ==
  /\ now = 0
  /\ \E st \in RaceStores :
       /\ sessionStorage = st.session
       /\ localStorage = st.local
  /\ op = [name |-> "init"]
  /\ ret = Null
  /\ location = "blank"
  /\ href = Null
  /\ loads = 0
  /\ lastError = NoError
  /\ NoPage

\* Time passes, up to the next check of an interval; a navigation that was
\* asked for takes place first.
RaceTick(d) ==
  /\ now + d <= MaxRaceTime
  /\ href = Null
  /\ \A x \in router.timers : now + d <= x.due
  /\ now' = now + d
  /\ UNCHANGED <<sessionStorage, localStorage, op, ret>>
  /\ UNCHANGED pageVars
  /\ UNCHANGED lastError
  /\ UNCHANGED authVars
  /\ UNCHANGED netVars

RaceNext ==
  \/ \E page \in AuthPages : UserOpens(page, Url(Null, Null, Null))
  \/ FollowsHref
  \/ \E x \in router.timers : IntervalFires(x)
  \/ \E p \in TickSlots, data \in RaceDatas : IntervalRefreshReturns(p, data)
  \/ \E p \in TickSlots, kind \in {"e401", "e5xx"} :
       IntervalRefreshFails(p, kind)
  \/ HandleLogout
  \/ \E p \in TickSlots \cup {"logout"}, kind \in {"ok", "e5xx"} :
       CallbackLogoutReturns(p, kind)
  \/ \E d \in RaceSteps : RaceTick(d)

SpecRace == RaceInit /\ [][RaceNext]_vars

----------------------------------------------------------------------------
(* The forms of the login and the registration page filled in and sent *)

MaxFormTime == 1000
MaxForms == 2

FormNext ==
  \/ \E email \in Emails, password \in Passwords, rememberMe \in BOOLEAN :
       auth.n < MaxForms /\ Login(email, password, rememberMe)
  \/ \E data \in AuthDatas(auth.n) : LoginReturns(data)
  \/ \E kind \in AuthFailures : LoginFails(kind)
  \/ \E email \in Emails, password \in Passwords, rememberMe \in BOOLEAN :
       auth.n < MaxForms /\ Register(email, password, rememberMe)
  \/ \E data \in AuthDatas(auth.n) : RegisterReturns(data)
  \/ \E kind \in AuthFailures : RegisterFails(kind)
  \/ \E d \in AuthSteps : Tick(d, MaxFormTime)

SpecForm == AuthInit /\ [][FormNext]_vars

----------------------------------------------------------------------------
(* Properties *)

\* The two pending_payment entries of the tab's storage.
PendingPayment(ss) ==
  [reference |-> ss.pending_payment_reference, plan |-> ss.pending_payment_plan]

NoPending == [reference |-> Null, plan |-> Null]

\* The awaited request of a call is answered, or fails, and the call ends.
CallEnds(call) == auth.pc = "await" /\ auth.call = call /\ auth'.pc = "idle"

\* The answer carried a token.
CarriedToken(data) == data.shape = "object" /\ data.token \notin {Null, ""}

Cleared(tier) == [tier EXCEPT !.token = Null, !.expiry = NoExpiry]

\* No token is written: each tier is left as it is or emptied.
NothingStored ==
  /\ sessionStorage' \in {sessionStorage, Cleared(sessionStorage)}
  /\ localStorage' \in {localStorage, Cleared(localStorage)}

\* The tier storeToken() writes for a flag, after the step.
TierAfter(rememberMe) == IF rememberMe THEN localStorage' ELSE sessionStorage'

C16_FailedLoginStaysAnonymous ==
  [][(CallEnds("login") /\ ~CarriedToken(auth'.data)) =>
       /\ auth'.result = "error"
       /\ NothingStored
       /\ GetToken(Cur, now).ret = Null =>
            GetToken(Stores(sessionStorage', localStorage'), now).ret = Null
       /\ currentUser' = currentUser
       /\ events' = events]_vars

\* A login answered 2xx without a token, after an earlier login had cached
\* a user: the call threw and the user is still cached.
C16_Witness ==
  /\ auth.call = "login"
  /\ auth.result = "error"
  /\ auth.data = AuthData("object", Null, 2, "U1")
  /\ currentUser = "authData"
  /\ Len(events) = 1

C20_RefreshKeepsTier ==
  [][(/\ CallEnds("refresh")
      /\ CarriedToken(auth'.data)
      /\ GetToken(Cur, now).ret # Null) =>
       LET after == Stores(sessionStorage', localStorage')
       IN  /\ sessionStorage.token # Null =>
                sessionStorage'.token = auth'.data.token
           /\ sessionStorage.token = Null =>
                localStorage'.token = auth'.data.token
           /\ GetToken(after, now).ret = auth'.data.token
           /\ FoundEntry(after).expiry =
                now + (ExpiresInOr(auth'.data.expiresIn) * 1000)]_vars

\* logout() has run to its end and left no session: both tiers empty, no
\* cached user, getToken() null, authStateChanged{authenticated: false} the
\* last event dispatched, location.href assigned the login page.
LoggedOut ==
  /\ auth.call = "logout"
  /\ auth.pc = "idle"
  /\ auth.result = "done"
  /\ sessionStorage.token = Null
  /\ sessionStorage.expiry = NoExpiry
  /\ localStorage.token = Null
  /\ localStorage.expiry = NoExpiry
  /\ currentUser = Null
  /\ ~IsAuthenticated(Cur, now).ret
  /\ events # <<>>
  /\ events[Len(events)] = Detail(Null, FALSE)
  /\ href = "login"

\* C18: every logout() call, whether it makes the logout request or not and
\* whatever becomes of that request (a 2xx answer, 401, another HTTP error,
\* a network failure, the timeout), is eventually over with no session
\* left: tiers empty, currentUser null, isAuthenticated() false, the event
\* dispatched and the login page assigned to location.href.
C18_LogoutEndsAnonymous == (auth.call = "logout") ~> LoggedOut

\* A user who had logged in has logged out: the request was made with the
\* session's token, and both events have been dispatched.
C18_Witness ==
  /\ LoggedOut
  /\ Len(events) = 2
  /\ events[1].authenticated
  /\ location = "profile"

\* Emails that are not of the shape x@y.z.
MalformedEmails ==
  {<<"a", "b", ".", "c">>,
   <<"a", "@", "b", "c">>,
   <<"a", "@", ".", "c">>,
   <<"a", " ", "@", "b", ".", "c">>}

\* Passwords that fail one of the strength rules at least.
WeakPasswords ==
  {<<"a", "b", "c">>,
   <<"a", "b", "c", "d", "e", "f", "g", "1">>,
   <<"A", "B", "C", "D", "E", "F", "G", "1">>,
   <<"A", "b", "c", "d", "e", "f", "g", "h">>,
   <<"A", "b", "c", "d", "e", "f", "1">>}

\* login() or register() has just been called with input its validation
\* has to reject.
CalledWithBadInput ==
  /\ auth'.n = auth.n + 1
  /\ auth'.call \in {"login", "register"}
  /\ \/ auth'.email = <<>>
     \/ auth'.password = <<>>
     \/ auth'.email \in MalformedEmails
     \/ auth'.call = "register" /\ auth'.password \in WeakPasswords

\* C15: login() and register() called with an empty email, an empty
\* password or a malformed email, and register() called with a password
\* that fails a strength rule, throw before any request is made: nothing is
\* awaited, and the storages, currentUser, the events dispatched and
\* location.href are as they were.
C15_ValidationBeforeNetwork ==
  [][CalledWithBadInput =>
       /\ auth'.pc = "idle"
       /\ auth'.result = "validation"
       /\ auth'.bearer = Null
       /\ sessionStorage' = sessionStorage
       /\ localStorage' = localStorage
       /\ currentUser' = currentUser
       /\ events' = events
       /\ href' = href]_vars

\* register() has rejected the password "abc" sent with a well-formed
\* email, on a page where an earlier login had stored a token.
C15_Witness ==
  /\ auth.call = "register"
  /\ auth.result = "validation"
  /\ auth.email = <<"a", "@", "b", ".", "c">>
  /\ auth.password = <<"a", "b", "c">>
  /\ auth.pc = "idle"
  /\ sessionStorage.token # Null
  /\ currentUser # Null

\* C17 as stated: valid is the conjunction of the four checks, minLength is
\* length >= 8, "abc" fails all four checks and "Abcdefg1" is valid.
C17_AbcFailsAllFour ==
  auth.validation.called =>
    /\ auth.validation.valid <=>
         (/\ auth.validation.minLength
          /\ auth.validation.hasUpper
          /\ auth.validation.hasLower
          /\ auth.validation.hasNumber)
    /\ auth.validation.minLength <=> Len(auth.password) >= 8
    /\ auth.password = <<"a", "b", "c">> =>
         /\ ~auth.validation.valid
         /\ ~auth.validation.minLength
         /\ ~auth.validation.hasUpper
         /\ ~auth.validation.hasLower
         /\ ~auth.validation.hasNumber
    /\ auth.password = <<"A", "b", "c", "d", "e", "f", "g", "1">> =>
         auth.validation.valid

\* C17, amended: valid is the conjunction of the four checks, minLength is
\* length >= 8; "abc" is invalid, failing minLength, hasUpper and hasNumber
\* but passing hasLower; "Abcdefg1" passes all four and is valid.
C17_PasswordReport ==
  auth.validation.called =>
    /\ auth.validation.valid <=>
         (/\ auth.validation.minLength
          /\ auth.validation.hasUpper
          /\ auth.validation.hasLower
          /\ auth.validation.hasNumber)
    /\ auth.validation.minLength <=> Len(auth.password) >= 8
    /\ auth.password = <<"a", "b", "c">> =>
         /\ ~auth.validation.valid
         /\ ~auth.validation.minLength
         /\ ~auth.validation.hasUpper
         /\ auth.validation.hasLower
         /\ ~auth.validation.hasNumber
    /\ auth.password = <<"A", "b", "c", "d", "e", "f", "g", "1">> =>
         /\ auth.validation.valid
         /\ auth.validation.minLength
         /\ auth.validation.hasUpper
         /\ auth.validation.hasLower
         /\ auth.validation.hasNumber

\* register() has had "Abcdefg1" validated and awaits its request.
C17_Witness ==
  /\ auth.call = "register"
  /\ auth.validation.called
  /\ auth.validation.valid
  /\ auth.password = <<"A", "b", "c", "d", "e", "f", "g", "1">>
  /\ auth.pc = "await"

\* C21: loadCurrentUser() makes the profile request exactly when
\* isAuthenticated() is true, with the token as Authorization header; when
\* the request fails it empties both tiers, returns null and leaves
\* currentUser alone; it assigns nothing to location.href: the only
\* navigation in its course is the api service's own on a 401 answered to
\* a protected page.
C21_ProfileFetchValidatesToken ==
  [][/\ (auth'.call = "loadUser" /\ auth'.n = auth.n + 1) =>
          /\ auth'.pc = "await" <=> GetToken(Cur, now).ret # Null
          /\ auth'.pc = "await" => auth'.bearer = GetToken(Cur, now).ret
          /\ auth'.pc = "idle" => auth'.result = "absent"
          /\ href' = href
          /\ currentUser' = currentUser
     /\ (CallEnds("loadUser") /\ auth'.error # Null) =>
          /\ auth'.result = "absent"
          /\ sessionStorage' = Cleared(sessionStorage)
          /\ localStorage' = Cleared(localStorage)
          /\ currentUser' = currentUser
          /\ href' # href =>
               /\ auth'.error = "e401"
               /\ IsProtectedRoute(location)
               /\ href' = "login"
     /\ CallEnds("loadUser") => location' = location]_vars

\* The profile request of a page whose local tier held a token failed with
\* a server error: no token is left and nothing was assigned to
\* location.href.
C21_Witness ==
  /\ auth.call = "loadUser"
  /\ auth.error = "e5xx"
  /\ auth.result = "absent"
  /\ IssuedTokens[1] \notin {sessionStorage.token, localStorage.token}
  /\ sessionStorage.token = Null
  /\ localStorage.token = Null
  /\ events # <<>>
  /\ href = Null

\* C22: in every state, a cached user means that the token store holds a
\* token that has not expired.
C22_CachedUserMeansSession ==
  currentUser # Null =>
    /\ FoundEntry(Cur).token # Null
    /\ FoundEntry(Cur).expiry # NoExpiry
    /\ now < FoundEntry(Cur).expiry

\* The statuses of the answers a request's attempts received.
StatusesOf(answers) == [i \in DOMAIN answers |-> answers[i].status]

\* An attempt of the request is answered in this step.
AnswerArrives == Len(req'.answers) = Len(req.answers) + 1

\* C23: a request answered 500 three times and then 200 returns success
\* after exactly 4 attempts; a request answered 500 every time throws one
\* server error after exactly 4 attempts; no request makes a 5th attempt.
C23_RetryCeiling ==
  /\ req.attempts <= retryAttempts + 1
  /\ StatusesOf(req.answers) = <<500, 500, 500>> => req.pc \in {"delay", "fetch"}
  /\ StatusesOf(req.answers) = <<500, 500, 500, 200>> =>
       /\ req.pc = "idle"
       /\ req.outcome = "success"
       /\ req.attempts = 4
       /\ req.thrown = 0
  /\ (/\ req.pc = "idle"
      /\ req.answers # <<>>
      /\ \A i \in DOMAIN req.answers : req.answers[i].status = 500) =>
       /\ req.outcome = "e5xx"
       /\ req.attempts = 4
       /\ req.retryCount = 3
       /\ req.thrown = 1

\* The endpoint answered 500 to every attempt: four attempts, the delays of
\* 1 s, 2 s and 3 s between them, one server error.
C23_Witness ==
  /\ req.pc = "idle"
  /\ StatusesOf(req.answers) = <<500, 500, 500, 500>>
  /\ req.outcome = "e5xx"
  /\ req.thrown = 1
  /\ now >= 6000

\* C24: a 401 ends the request with the session-expired error and without
\* another attempt; on a protected page both tiers are emptied and
\* location.href is set to the login page, on any other page the two
\* storages and location.href are left as they are.
C24_UnauthorizedNotRetried ==
  [][(AnswerArrives /\ req'.answers[Len(req'.answers)].status = 401) =>
       /\ req'.pc = "idle"
       /\ req'.outcome = "e401"
       /\ req'.thrown = req.thrown + 1
       /\ req'.attempts = req.attempts
       /\ location' = location
       /\ IF location \in {"profile", "subscription", "dashboard"}
            THEN /\ sessionStorage' = Cleared(sessionStorage)
                 /\ localStorage' = Cleared(localStorage)
                 /\ href' = "login"
            ELSE /\ sessionStorage' = sessionStorage
                 /\ localStorage' = localStorage
                 /\ href' = href]_vars

\* On the login page the second attempt of a request was answered 401: the
\* tokens of both tiers are still there and nothing was assigned to
\* location.href.
C24_Witness ==
  /\ location = "login"
  /\ req.pc = "idle"
  /\ req.outcome = "e401"
  /\ StatusesOf(req.answers) = <<500, 401>>
  /\ sessionStorage.token = "T1"
  /\ localStorage.token = "T2"
  /\ href = Null

\* C25: an attempt that reaches the 30 s of the abort timer ends the
\* request with the timeout error, whatever its retryCount is, and the
\* request makes no attempt after it.
C25_TimeoutNotRetried ==
  [][/\ (AnswerArrives /\ req'.answers[Len(req'.answers)].error = "AbortError") =>
          /\ now - req.startedAt = API_TIMEOUT
          /\ req'.pc = "idle"
          /\ req'.outcome = "timeout"
          /\ req'.thrown = req.thrown + 1
          /\ req'.attempts = req.attempts
     /\ (req.outcome = "timeout" /\ req'.n = req.n) => req' = req]_vars

\* The third attempt of a request, made after two server errors, ran into
\* the abort timer.
C25_Witness ==
  /\ req.pc = "idle"
  /\ req.outcome = "timeout"
  /\ req.retryCount = 2
  /\ req.attempts = 3
  /\ req.answers[3].error = "AbortError"
  /\ now = req.startedAt + API_TIMEOUT

RECURSIVE StringLeaves(_)
\* The strings in a value, in the order they come.
StringLeaves(value) ==
  IF value.t = "str" THEN <<value.v>>
  ELSE IF value.t = "obj"
    THEN Join([i \in DOMAIN value.v |-> StringLeaves(value.v[i].v)], <<>>)
  ELSE IF value.t = "arr"
    THEN Join([i \in DOMAIN value.v |-> StringLeaves(value.v[i])], <<>>)
  ELSE <<>>

\* C26: whatever entry point made it, the body of a POST, PUT or PATCH
\* request is the serialization of a value whose strings are the strings
\* of the caller's data, each HTML-escaped.
C26_BodiesSanitized ==
  req.method \in {"POST", "PUT", "PATCH"} =>
    StringLeaves(req.sent) =
      [i \in DOMAIN StringLeaves(req.data) |->
         SanitizeHTML(StringLeaves(req.data)[i])]

\* The bodies of post(), put() and patch(): JSON text whose strings are the
\* escaped strings of the data.
JsonBodiesSanitized ==
  (req.method \in {"POST", "PUT", "PATCH"} /\ req.enc = "json") =>
    /\ StringLeaves(req.sent) =
         [i \in DOMAIN StringLeaves(req.data) |->
            SanitizeHTML(StringLeaves(req.data)[i])]
    /\ req.body = JsonStringify(req.sent)
    /\ \A i \in DOMAIN req.body : req.body[i] \notin {"<", ">"}

\* checkRouteAccess() runs in this step: called on its own, or by the
\* constructor when a page loads.
GuardRuns == router'.checks = router.checks + 1 \/ loads' = loads + 1

\* What the guard found: the page is protected, it is the login or the
\* registration page, isAuthenticated() is true.
GuardProtected == location' \in {"profile", "subscription", "dashboard"}
GuardAuthPage == location' \in {"login", "register"}
GuardAuthenticated == IsAuthenticated(Cur, now).ret

\* location.href as the guard found it: nothing is pending on a page that
\* has just loaded.
HrefBefore == IF loads' = loads + 1 THEN Null ELSE href

\* The two redirects of the guard.
GuardRedirects ==
  /\ (GuardProtected /\ ~GuardAuthenticated) =>
       /\ sessionStorage'.redirectAfterLogin = Intended(location', urlParams')
       /\ href' = "login"
       /\ router'.decision = "login"
       /\ router'.replace
  /\ (GuardAuthenticated /\ GuardAuthPage) =>
       /\ href' = "profile"
       /\ router'.decision = "profile"
       /\ router'.replace

GuardLetsPass ==
  ~(GuardProtected /\ ~GuardAuthenticated) /\ ~(GuardAuthenticated /\ GuardAuthPage)

\* C27 as the specification states it: a protected page without session is
\* redirected to the login page with the intended path stored, a login or
\* registration page with session is redirected to the profile page, both by
\* location.replace; in every other case nothing is navigated to and
\* neither storage is written.
C27_GuardWritesNothingElse ==
  [][GuardRuns =>
       /\ GuardRedirects
       /\ GuardLetsPass =>
            /\ router'.decision = "none"
            /\ href' = HrefBefore
            /\ sessionStorage' = sessionStorage
            /\ localStorage' = localStorage]_vars

\* C27: as above, but in every other case the storages are written by
\* isAuthenticated() only: an expired token is removed from both tiers,
\* anything else is left as it is.
C27_GuardDecision ==
  [][GuardRuns =>
       /\ GuardRedirects
       /\ GuardLetsPass =>
            /\ router'.decision = "none"
            /\ href' = HrefBefore
            /\ sessionStorage' = IsAuthenticated(Cur, now).st.session
            /\ localStorage' = IsAuthenticated(Cur, now).st.local
            /\ sessionStorage'.redirectAfterLogin =
                 sessionStorage.redirectAfterLogin]_vars

\* The subscription page was opened with a query string and without a
\* session: the path and the query string are stored and the login page is
\* navigated to by location.replace.
C27_Witness ==
  /\ location = "subscription"
  /\ router.up
  /\ router.decision = "login"
  /\ router.replace
  /\ href = "login"
  /\ sessionStorage.redirectAfterLogin =
       Intended("subscription", Url("r1", Null, Null))

\* C28: a call of checkRouteAccess() that follows another on the same page,
\* with isAuthenticated() answering as before and the intended path as that
\* call left it, decides the same and leaves the same intended path stored;
\* and on the page a redirect of the guard led to, with isAuthenticated()
\* answering as before, the guard redirects no further.
C28_GuardIdempotent ==
  [][/\ (/\ router'.checks = router.checks + 1
         /\ router.checks >= 1
         /\ loads' = loads
         /\ router.authed = IsAuthenticated(Cur, now).ret
         /\ router.decision = "login" =>
              sessionStorage.redirectAfterLogin = Intended(location, urlParams))
          =>
          /\ router'.decision = router.decision
          /\ router.decision # "none" =>
               sessionStorage'.redirectAfterLogin =
                 sessionStorage.redirectAfterLogin
          /\ router.decision = "none" => href' = href
     /\ (/\ loads' = loads + 1
         /\ router.decision \in {"login", "profile"}
         /\ href = router.decision
         /\ location' = href
         /\ router.authed = IsAuthenticated(Cur, now).ret) =>
          /\ router'.decision = "none"
          /\ href' = Null]_vars

\* The guard redirected the profile page, opened without a session, to the
\* login page, and there it let the page pass.
C28_Witness ==
  /\ loads = 2
  /\ location = "login"
  /\ router.up
  /\ router.decision = "none"
  /\ href = Null
  /\ sessionStorage.redirectAfterLogin = Intended("profile", Url(Null, Null, Null))

\* An interval of the page is due and its callback runs in this step.
IntervalTicks ==
  /\ loads' = loads
  /\ \E x \in router.timers :
       /\ x.due = now
       /\ [x EXCEPT !.due = now + refreshCheckDelay] \in router'.timers

\* The callback's refreshToken() ends in this step with this result.
TimerRefreshEnds(result) ==
  /\ router.tick = "refresh"
  /\ auth.call = "refresh"
  /\ auth.pc = "await"
  /\ result = (auth'.call = "refresh" /\ auth'.result = "true")
  /\ loads' = loads

\* On a check of the interval refreshToken() is called exactly when the
\* stored expiry is less than the threshold away; when it returns false,
\* logout() is called.
TimerChecks ==
  /\ IntervalTicks =>
       ((auth'.call = "refresh" /\ auth'.pc = "await" /\ auth'.n = auth.n + 1)
          <=> NeedsRefresh(Cur, now))
  /\ TimerRefreshEnds(FALSE) =>
       /\ auth'.call = "logout"
       /\ auth'.n = auth.n + 1
       /\ auth'.pc = "await" \/ LoggedOut'

\* After a refresh that returned true, getToken() returns the token of the
\* refresh response.
SessionHasNewToken ==
  GetToken(Stores(sessionStorage', localStorage'), now).ret = auth'.data.token

\* C29: on each check of the interval refreshToken() is called exactly when
\* the stored expiry is less than the threshold away; when it returns
\* false, logout() is called; when it returns true, the session is
\* authenticated with the token of the refresh response.
C29_TimerRefreshes ==
  [][/\ TimerChecks
     /\ TimerRefreshEnds(TRUE) => SessionHasNewToken]_vars

\* The same where one tier alone holds a token when the refresh returns.
TimerRefreshesOneTier ==
  [][/\ TimerChecks
     /\ (/\ TimerRefreshEnds(TRUE)
         /\ sessionStorage.token = Null \/ localStorage.token = Null) =>
          SessionHasNewToken]_vars

\* C30: the constructor of the router sets the interval exactly when
\* isAuthenticated(); an authStateChanged event with authenticated true
\* leaves the one interval set by it, due a minute later; an event with
\* authenticated false leaves none; at no time are there two intervals.
C30_OneRefreshTimer ==
  [][/\ Cardinality(router'.timers) <= 1
     /\ \A x \in router'.timers : x.id = router'.refreshInterval
     /\ loads' = loads + 1 =>
          (router'.timers # {} <=>
             IsAuthenticated(Stores(sessionStorage', localStorage'), now).ret)
     /\ (router.up /\ loads' = loads /\ Len(events') = Len(events) + 1) =>
          IF events'[Len(events')].authenticated
            THEN router'.timers = {[id |-> router.intervals + 1,
                                    due |-> now + refreshCheckDelay]}
            ELSE router'.timers = {}]_vars

\* Two logins on the login page, a minute apart: the interval of the first
\* is cleared, the one of the second is set.
C30_Witness ==
  /\ location = "login"
  /\ router.up
  /\ Len(events) = 2
  /\ events[1].authenticated
  /\ events[2].authenticated
  /\ router.intervals = 2
  /\ router.timers = {[id |-> 2, due |-> now + refreshCheckDelay]}
  /\ now = 60000

\* C11: whenever getToken() returned a token, or isAuthenticated() returned
\* true, the token is the one of the entry the call found and the expiry
\* stored with it is strictly later than Date.now() at the call: an expired
\* session is never reported as authenticated.
C11_AuthenticatedMeansUnexpired ==
  (\/ op.name = "getToken" /\ ret # Null
   \/ op.name = "isAuthenticated" /\ ret = "true")
  => /\ op.token # Null
     /\ op.name = "getToken" => ret = op.token
     /\ op.expiry # NoExpiry
     /\ op.expiry > op.at

\* isAuthenticated() answered true one step of time before the expiry, and
\* the expiry has been reached since.
C11_Witness ==
  /\ op.name = "isAuthenticated"
  /\ ret = "true"
  /\ op.expiry = op.at + 1000
  /\ now >= op.expiry

\* A getToken() call: the step that records it.
GetTokenStep == op'.name = "getToken" /\ now' = now

\* C12: a getToken() call made while both tiers hold unexpired tokens returns
\* the session tier's token; whenever the session tier holds a token, the
\* result is decided by the session tier's entry alone (its token, or null
\* when that entry has expired), whatever the local tier holds.
C12_SessionTierFirst ==
  [][GetTokenStep =>
       /\ (/\ sessionStorage.token # Null
           /\ localStorage.token # Null
           /\ now < sessionStorage.expiry
           /\ now < localStorage.expiry) => ret' = sessionStorage.token
       /\ sessionStorage.token # Null =>
            ret' = IF now < sessionStorage.expiry
                     THEN sessionStorage.token ELSE Null
       /\ sessionStorage.token = Null /\ localStorage.token # Null =>
            ret' = IF now < localStorage.expiry
                     THEN localStorage.token ELSE Null]_vars

\* getToken() returned the session tier's token while the local tier held a
\* different token that had not expired either.
C12_Witness ==
  /\ op.name = "getToken"
  /\ now = op.at
  /\ ret # Null
  /\ ret = sessionStorage.token
  /\ localStorage.token \notin {Null, ret}
  /\ now < localStorage.expiry

\* C13 as stated: needsRefresh() returns true exactly when the token found in
\* storage has not expired and its expiry is less than 300000 ms away.
C13_NearExpiryOfUnexpiredToken ==
  op.name = "needsRefresh" =>
    (ret = "true" <=> /\ op.token # Null
                      /\ op.expiry # NoExpiry
                      /\ op.at < op.expiry
                      /\ op.expiry - op.at < 300000)

\* C13, amended: needsRefresh() returns true exactly when an expiry is stored
\* (the session tier's, else the local tier's) and that expiry minus
\* Date.now() is below 300000, also when the expiry has already passed and
\* the entry has not been cleared yet; so it is true at 299999 ms remaining,
\* false at 300000 and at 300001, and false when nothing is stored.
C13_NearExpiryOfStoredEntry ==
  op.name = "needsRefresh" =>
    /\ ret = "true" <=> (op.expiry # NoExpiry /\ op.expiry - op.at < 300000)
    /\ (op.expiry # NoExpiry /\ op.expiry - op.at = 299999) => ret = "true"
    /\ (op.expiry # NoExpiry /\ op.expiry - op.at >= 300000) => ret = "false"
    /\ op.token = Null => ret = "false"

\* needsRefresh() answered true with 299999 ms remaining.
C13_Witness ==
  /\ op.name = "needsRefresh"
  /\ op.token # Null
  /\ op.expiry - op.at = 299999
  /\ ret = "true"

StatusReceived ==
  /\ location = "subscription" /\ location' = "subscription"
  /\ loads' = loads
  /\ verify.pc = "flight"
  /\ verify'.pc # "flight"
  /\ verify'.status # Null

\* C1: a received status response is classified three ways. 'success' removes
\* both PendingPayment entries, shows the success view and requests the
\* current subscription again; 'pending' shows the processing view, keeps
\* PendingPayment and sets the timer of another verification; any other
\* status removes both PendingPayment entries and shows the failure view.
C1_StatusClassified ==
  [][StatusReceived =>
       CASE verify'.status = "success" ->
              /\ PendingPayment(sessionStorage') = NoPending
              /\ statusView' = "success"
              /\ http'["verify"].ep = "me"
         [] verify'.status = "pending" ->
              /\ PendingPayment(sessionStorage') = PendingPayment(sessionStorage)
              /\ statusView' = "pending"
              /\ verify'.pc = "wait"
              /\ verify'.due > now
              /\ verify'.reference = verify.reference
         [] OTHER ->
              /\ PendingPayment(sessionStorage') = NoPending
              /\ statusView' = "failed"
              /\ verify'.pc = "done"
              /\ http'["verify"] = NoReq]_vars

\* The verification of the persisted reference got 'success': PendingPayment
\* is gone and the current subscription is being requested again.
C1_Witness ==
  /\ verify.status = "success"
  /\ urlParams = Url(Null, Null, Null)
  /\ statusView = "success"
  /\ verify.reference = "r1"
  /\ PendingPayment(sessionStorage) = NoPending
  /\ http["verify"].ep = "me"

\* The first of a, b, c that is present (neither missing nor empty), else d.
FirstPresent(a, b, c, d) ==
  IF a \notin {Null, ""} THEN a
  ELSE IF b \notin {Null, ""} THEN b
  ELSE IF c \notin {Null, ""} THEN c
  ELSE d

\* handlePaymentRedirect() has just run in the load handler.
RedirectHandled ==
  /\ location = "subscription" /\ location' = "subscription"
  /\ loads' = loads
  /\ loadPc = "sub"
  /\ loadPc' # "sub"

\* C8: on a load of the page the reference verified is the first present of
\* the URL parameters reference, tx_ref, trxref, else the persisted
\* PendingPayment reference; with none present the status view stays hidden
\* and the page issues no status request.
C8_ReferenceChoice ==
  /\ [][RedirectHandled =>
          LET r == FirstPresent(urlParams.reference, urlParams.tx_ref,
                                urlParams.trxref,
                                sessionStorage.pending_payment_reference)
          IN  IF r \in {Null, ""}
                THEN /\ verify' = IdleVerify
                     /\ statusView' = "hidden"
                ELSE /\ verify'.pc = "grace"
                     /\ verify'.reference = r
                     /\ statusView' = "verifying"]_vars
  /\ [](verify.pc = "idle" => statusCount = 0 /\ statusView = "hidden")
  /\ [](http["verify"].ep = "status" =>
          http["verify"].ref = verify.reference)

\* The URL's reference parameter is empty and tx_ref is verified, though
\* trxref and a persisted reference are there too.
C8_Witness ==
  /\ urlParams = Url("", "r1", "r2")
  /\ http["verify"].ep = "status"
  /\ http["verify"].ref = "r1"

\* initializeSubscriptionPage() is over, with or without a quote.
PricingSettled == loadPc \in {"history", "done"}

\* C9 as stated: when the fetch for the detected country fails, exactly one
\* further fetch is made, for the default country, before the error is
\* surfaced.
C9_OneFallbackFetch ==
  /\ Len(pricingFetches) <= 2
  /\ pricingFailed =>
       /\ Len(pricingFetches) = 2
       /\ pricingFetches[2] = DEFAULT_COUNTRY

\* C9, amended: when the fetch for the detected country fails and that
\* country is not the default country, exactly one further fetch is made, for
\* the default country, before the error is surfaced, and if that one
\* succeeds its quote becomes the pricing data and the current country the
\* default country; when the detected country is the default country the
\* error is surfaced without a further fetch.
C9_FallbackUnlessDefault ==
  /\ Len(pricingFetches) <= 2
  /\ Len(pricingFetches) = 2 =>
       /\ pricingFetches[1] # DEFAULT_COUNTRY
       /\ pricingFetches[2] = DEFAULT_COUNTRY
       /\ currentCountry = DEFAULT_COUNTRY
  /\ pricingFailed =>
       /\ pricingData = Null
       /\ IF pricingFetches[1] = DEFAULT_COUNTRY
            THEN pricingFetches = <<DEFAULT_COUNTRY>>
            ELSE pricingFetches = <<pricingFetches[1], DEFAULT_COUNTRY>>
  /\ (PricingSettled /\ ~pricingFailed) =>
       /\ pricingData \in Quotes
       /\ http["load"].ep # "pricing"
       /\ currentCountry = pricingFetches[Len(pricingFetches)]

\* The fetch for "us" failed, the one for the default country returned a
\* quote.
C9_Witness ==
  /\ pricingFetches = <<"us", DEFAULT_COUNTRY>>
  /\ PricingSettled
  /\ ~pricingFailed
  /\ pricingData = "QA"
  /\ currentCountry = DEFAULT_COUNTRY

\* The status call of a verification has just failed: it threw, or returned
\* no data.
StatusFailed ==
  /\ location = "subscription" /\ location' = "subscription"
  /\ loads' = loads
  /\ verify.pc = "flight"
  /\ verify'.pc = "done"
  /\ verify'.status = Null

\* The load that follows the one whose verification failed, with the same
\* query string.
ReloadAfterError ==
  /\ lastError.load > 0
  /\ lastError.load = loads - 1
  /\ urlParams = lastError.url

\* C2 as stated: when the status call fails the error view is shown,
\* PendingPayment is left as it is, and the next load of the page verifies
\* the same reference again.
C2_ErrorThenReloadVerifies ==
  (ReloadAfterError /\ loadPc \notin {"none", "start", "user", "sub"})
  => /\ verify.pc # "idle"
     /\ verify.reference = lastError.reference

\* C2, amended: when the status call fails the error view is shown and
\* PendingPayment is left as it is; the next load of the page verifies the
\* same reference again if its handler gets to handlePaymentRedirect(), which
\* takes that isAuthenticated() still holds at the load (it does not after a
\* 401, which clears the token).
C2_ErrorKeepsPending ==
  /\ [][StatusFailed =>
          /\ statusView' = "error"
          /\ PendingPayment(sessionStorage') = PendingPayment(sessionStorage)
          /\ lastError'.reference = verify.reference]_vars
  /\ [][(/\ RedirectHandled
         /\ ReloadAfterError
         /\ lastError.reference \in
              {Reference(urlParams, EmptySession),
               sessionStorage.pending_payment_reference})
        => /\ verify'.pc = "grace"
           /\ verify'.reference = lastError.reference
           /\ statusView' = "verifying"]_vars

\* The status call failed in the first load for the persisted reference, and
\* the second load is verifying it again.
C2_Witness ==
  /\ ReloadAfterError
  /\ urlParams = Url(Null, Null, Null)
  /\ lastError.reference = "r1"
  /\ http["verify"].ep = "status"
  /\ http["verify"].ref = "r1"

\* C3: when the status endpoint answers 'pending' three times and then
\* 'success', the verification has made exactly 4 status requests and both
\* PendingPayment entries are gone; the first request of a page is made no
\* earlier than 2 s after the verification started, and each later one no
\* earlier than 5 s after the one before.
C3_PollingSchedule ==
  /\ []((verify.status = "success" /\ nPending = 3 /\ ~sawError) =>
          /\ statusCount = 4
          /\ PendingPayment(sessionStorage) = NoPending)
  /\ [][statusCount' = statusCount + 1 =>
          /\ lastStatusAt' = now
          /\ IF statusCount = 0
               THEN now >= verifyStartAt + 2000
               ELSE now >= lastStatusAt + 5000]_vars

\* Three 'pending' answers, then 'success' to the fourth request.
C3_Witness ==
  /\ verify.status = "success"
  /\ nPending = 3
  /\ ~sawError
  /\ statusCount = 4
  /\ PendingPayment(sessionStorage) = NoPending

\* The response data of POST /payments/initiate has just reached call p.
PostAnswered(p) ==
  /\ location = "subscription" /\ location' = "subscription"
  /\ loads' = loads
  /\ inits[p].pc = "post"
  /\ inits'[p].pc # "post"
  /\ \/ inits'[p].data.authUrl # Null
     \/ inits'[p].data.reference # Null

\* A timer of call p is set.
Scheduled(i) == i.pc \in {"redirect", "toLogin"}

\* C4: when the response data of an initiation lacks the authorization URL
\* or the reference, the call ends in an error, writes no PendingPayment
\* entry and sets no navigation to a payment provider (nor any other).
C4_IncompleteResponseIsError ==
  [][\A p \in InitSlots :
       (/\ PostAnswered(p)
        /\ \/ inits'[p].data.authUrl \in {Null, ""}
           \/ inits'[p].data.reference \in {Null, ""})
       => /\ inits'[p].pc = "done"
          /\ inits'[p].result \in {"noUrl", "noReference"}
          /\ ~Scheduled(inits'[p])
          /\ PendingPayment(sessionStorage') = PendingPayment(sessionStorage)
          /\ href' = href]_vars

\* A response with a reference but no authorization URL ended a call in an
\* error, nothing being stored.
C4_Witness ==
  \E p \in InitSlots :
    /\ inits[p].pc = "done"
    /\ inits[p].data = PayData(Null, "r1")
    /\ inits[p].result = "noUrl"
    /\ PendingPayment(sessionStorage) = NoPending

\* C5: a confirmed initiatePayment(plan, enableAutoRenew) has POST
\* /payments/initiate in flight with the body {plan lower-cased, country_code
\* the current country upper-cased, enable_auto_renew a boolean}; when the
\* response carries an authorization URL and a reference, PendingPayment
\* {reference, plan} is stored with the navigation still to come, and the tab
\* leaves for that URL only with a PendingPayment stored.
C5_InitiationRequestAndRecord ==
  /\ [](\A p \in InitSlots :
          inits[p].pc = "post" =>
            /\ http[p].ep = "initiate"
            /\ http[p].body.plan = LowerCase(inits[p].plan)
            /\ http[p].body.plan \in {"monthly", "yearly", "weekly"}
            /\ http[p].body.country_code = UpperCase(currentCountry)
            /\ http[p].body.country_code \in {"NG", "US"}
            /\ http[p].body.enable_auto_renew
                 = (inits[p].enableAutoRenew # "false"))
  /\ [][\A p \in InitSlots :
          (/\ PostAnswered(p)
           /\ inits'[p].data.authUrl \notin {Null, ""}
           /\ inits'[p].data.reference \notin {Null, ""})
          => /\ PendingPayment(sessionStorage')
                  = [reference |-> inits'[p].data.reference,
                     plan |-> inits[p].plan]
             /\ inits'[p].pc = "redirect"
             /\ inits'[p].due = now + 1000
             /\ href' = href]_vars
  /\ [][(location = "subscription" /\ location' = "payUrl") =>
          PendingPayment(sessionStorage).reference \in Refs]_vars

\* The tab is at the payment provider, PendingPayment stored for the plan
\* the user chose.
C5_Witness ==
  /\ location = "payUrl"
  /\ PendingPayment(sessionStorage) = [reference |-> "r1", plan |-> "Monthly"]

\* Call p has just got past its authentication and user checks, or ended at
\* them.
CallDecided(p) ==
  /\ location = "subscription" /\ location' = "subscription"
  /\ loads' = loads
  /\ inits[p].pc \in {"idle", "done", "user"}
  /\ inits'[p].pc # "user"
  /\ inits'[p].pc # "idle"
  /\ inits'[p] # inits[p]

C7_PendingPaymentLifecycle ==
  [][PendingPayment(sessionStorage') # PendingPayment(sessionStorage) =>
       \/ /\ PendingPayment(sessionStorage) = NoPending
          /\ \E p \in InitSlots :
               /\ inits[p].pc = "post"
               /\ inits'[p].pc = "redirect"
               /\ PendingPayment(sessionStorage').reference
                    = inits'[p].data.reference
       \/ /\ PendingPayment(sessionStorage') = NoPending
          /\ verify.pc = "flight"
          /\ verify'.status \in Statuses \ {"pending"}]_vars

\* C7, amended: PendingPayment is written only by an initiation whose
\* response was complete, which stores that response's reference and the
\* call's plan whether or not a PendingPayment is stored already (a second
\* initiation replaces the outstanding one); it is removed only when a status
\* answer other than 'pending' is received.
C7_PendingPaymentWrites ==
  [][PendingPayment(sessionStorage') # PendingPayment(sessionStorage) =>
       \/ \E p \in InitSlots :
            /\ inits[p].pc = "post"
            /\ inits'[p].pc = "redirect"
            /\ inits'[p].data.authUrl \notin {Null, ""}
            /\ inits'[p].data.reference \notin {Null, ""}
            /\ PendingPayment(sessionStorage')
                 = [reference |-> inits'[p].data.reference,
                    plan |-> inits[p].plan]
       \/ /\ PendingPayment(sessionStorage') = NoPending
          /\ verify.pc = "flight"
          /\ verify'.status \in Statuses \ {"pending"}]_vars

\* The PendingPayment an initiation stored was verified from storage in the
\* next load and removed on a terminal status.
C7_Witness ==
  /\ loads = 2
  /\ urlParams = Url(Null, Null, Null)
  /\ verify.reference \in Refs
  /\ verify.status \in {"success", "failed", "abandoned"}
  /\ PendingPayment(sessionStorage) = NoPending

\* A getRedirectPath() call takes place.
RedirectRead ==
  /\ op'.name = "getRedirectPath"
  /\ now' = now
  /\ loads' = loads
  /\ router' = router
  /\ href' = href

\* C31: getRedirectPath() returns the profile, the subscription or the
\* dashboard page, the profile page when nothing is stored, and it leaves no
\* intended path in sessionStorage, so that a call made right after it
\* returns the profile page.
C31_RedirectPathReadOnce ==
  [][RedirectRead =>
       /\ ret' \in {"profile", "subscription", "dashboard"}
       /\ sessionStorage.redirectAfterLogin.path = Null => ret' = "profile"
       /\ sessionStorage.redirectAfterLogin.path
            \in {"profile", "subscription", "dashboard"}
            => ret' = sessionStorage.redirectAfterLogin.path
       /\ sessionStorage'.redirectAfterLogin.path = Null
       /\ (/\ op.name = "getRedirectPath"
           /\ sessionStorage.redirectAfterLogin.path = Null) => ret' = "profile"]_vars

\* The guard stored the subscription page, a first call returned it, and a
\* second call right after returned the profile page.
C31_Witness ==
  /\ op.name = "getRedirectPath"
  /\ op.redirect = Null
  /\ op.previous = "subscription"
  /\ ret = "profile"
  /\ location = "login"
  /\ router.up
  /\ sessionStorage.redirectAfterLogin.path = Null
  /\ loads = 2

\* logout() has run to its end on this page.
LogoutCompleted ==
  /\ events # <<>>
  /\ ~events[Len(events)].authenticated
  /\ href = "login"

\* C32: after logout() has run to its end, no response that arrives on the
\* page changes the token storage, the cached user or the pending payment.
C32_LateResponseDiscarded ==
  [][(LogoutCompleted /\ loads' = loads) =>
       /\ sessionStorage' = sessionStorage
       /\ localStorage' = localStorage
       /\ currentUser' = currentUser]_vars

\* C36: at most one callback of the interval awaits refreshToken() or
\* logout() at any time.
C36_OneTimerRefresh == ~(InFlight("tick1") /\ InFlight("tick2"))

\* C37: while an interval of the router is set, the token storage holds an
\* unexpired token.
C37_TimerMeansSession ==
  router.timers # {} => IsAuthenticated(Cur, now).ret

\* C33: an attempt answered 403, 404, 400 or 422 ends the request with its
\* error, without a delay and without another attempt.
C33_ClientErrorNotRetried ==
  [][(/\ AnswerArrives
      /\ req'.answers[Len(req'.answers)].status \in {403, 404, 400, 422}) =>
       /\ req'.pc = "idle"
       /\ req'.outcome = "e4xx"
       /\ req'.thrown = req.thrown + 1
       /\ req'.attempts = req.attempts]_vars

\* C40: the attempts of one request number at most four, whatever its
\* answers are: each further attempt raises the one retry counter by one,
\* and no step of the request lowers it.
C40_AttemptsBounded ==
  [][req'.n = req.n =>
       /\ req'.attempts <= retryAttempts + 1
       /\ req'.retryCount >= req.retryCount
       /\ req'.retryCount <= retryAttempts
       /\ req'.attempts \in {req.attempts, req.attempts + 1}
       /\ (req'.attempts = req.attempts + 1 /\ req.attempts >= 1) =>
            req'.retryCount = req.retryCount + 1]_vars

\* A request whose attempts met a server error, a transport failure and two
\* 404 answers ended with its fourth attempt.
C40_Witness ==
  /\ req.pc = "idle"
  /\ req.attempts = 4
  /\ req.retryCount = 3
  /\ req.thrown = 1
  /\ req.outcome = "e4xx"
  /\ StatusesOf(req.answers)[1] = 500
  /\ StatusesOf(req.answers)[2] = 404
  /\ req.answers[3].error = "TypeError"
  /\ StatusesOf(req.answers)[4] = 404

\* The status request of the page is answered with a status in this step.
StatusArrives ==
  /\ verify.pc = "flight"
  /\ verify'.pc # "flight"
  /\ location' = "subscription"
  /\ sawError' = sawError

\* The verification has shown its result, or the page was left.
PollEnded ==
  \/ location # "subscription"
  \/ statusView \in {"success", "failed", "error"}

\* C34: every 'pending' answer, the k-th as the first, schedules another
\* invocation, which makes request k + 1 unless the page is left; the
\* chain ends only with an answer that is not 'pending' or with an error;
\* and once a request is made the verification comes to its end or the page
\* is left.
C34_PollUncapped ==
  /\ [][/\ (StatusArrives /\ verify'.status = "pending") =>
             /\ verify'.pc = "wait"
             /\ verify'.due = now + pollDelay
             /\ nPending' = nPending + 1
             /\ statusCount = nPending + 1
        /\ (StatusArrives /\ verify'.status # "pending") =>
             /\ verify'.pc \in {"resub", "done"}
             /\ statusView' \in {"success", "failed"}
        /\ (verify.pc = "wait" /\ verify'.pc # "wait" /\ location' = location)
             => verify'.pc = "grace" /\ now >= verify.due
        /\ (verify.pc = "grace" /\ verify'.pc # "grace" /\ location' = location)
             => /\ verify'.pc = "flight"
                /\ statusCount' = statusCount + 1
        /\ (verify.pc \in {"wait", "grace", "flight"}
              /\ verify'.pc \notin {"wait", "grace", "flight"}
              /\ location' = location) =>
             \/ verify'.status \in Statuses \ {"pending"}
             \/ sawError']_vars
  /\ (verify.pc = "flight") ~> PollEnded

\* After three 'pending' answers the fourth status request is in flight.
C34_Witness ==
  /\ location = "subscription"
  /\ nPending = MaxPolls
  /\ statusCount = MaxPolls + 1
  /\ verify.pc = "flight"
  /\ verify.status = Null
  /\ ~sawError

\* C35: when a login, a registration or a refresh has stored the token of
\* its response, getToken() returns that token and buildHeaders() puts it
\* into the Authorization header, whatever the two tiers held before.
C35_StoredTokenIsRead ==
  [][\A call \in {"login", "register", "refresh"} :
       (CallEnds(call) /\ CarriedToken(auth'.data)) =>
         LET after == Stores(sessionStorage', localStorage')
         IN  /\ GetToken(after, now).ret = auth'.data.token
             /\ BuildHeaders(after, now, TRUE).bearer = auth'.data.token]_vars

\* C38: the pending_payment keys are removed only in the step in which the
\* verification of the reference they store is answered with a status that
\* is not 'pending'; the verification of another reference leaves them.
C38_OnlyOwnReferenceDeletes ==
  [][(/\ sessionStorage.pending_payment_reference # Null
      /\ sessionStorage'.pending_payment_reference = Null) =>
       /\ StatusArrives
       /\ verify'.status \in Statuses \ {"pending"}
       /\ verify.reference = sessionStorage.pending_payment_reference]_vars

\* The pending_payment keys are removed only in the step in which a
\* verification, of whatever reference, is answered with a status that is
\* not 'pending'.
PendingDeletedOnTerminal ==
  [][(/\ sessionStorage.pending_payment_reference # Null
      /\ sessionStorage'.pending_payment_reference = Null) =>
       /\ StatusArrives
       /\ verify'.status \in Statuses \ {"pending"}]_vars

\* C39: a page makes its status requests one after the other (a request is
\* made by the one invocation whose delay has run out, while none is in
\* flight and no timer is set), and once it shows success, failure or the
\* error it makes no further status request and keeps what it shows.
C39_OnePollAbsorbing ==
  [][/\ (statusCount' = statusCount + 1 /\ loads' = loads) =>
          /\ verify.pc = "grace"
          /\ ~InFlight("verify")
          /\ verify'.pc = "flight"
          /\ http'["verify"].ep = "status"
     /\ verify'.pc \in {"grace", "wait"} => ~InFlight("verify")'
     /\ (/\ statusView \in {"success", "failed", "error"}
         /\ loads' = loads
         /\ location' = location) =>
          /\ statusCount' = statusCount
          /\ statusView' = statusView
          /\ verify'.pc \in {"resub", "done"}]_vars

\* The second load of the page, whose status request was answered 'failed',
\* shows the failure eight seconds later, having made no second request.
C39_Witness ==
  /\ location = "subscription"
  /\ loads = 2
  /\ statusView = "failed"
  /\ verify.pc = "done"
  /\ verify.status = "failed"
  /\ statusCount = 1
  /\ now >= lastStatusAt + 8000

=============================================================================
